---- MODULE Spec2Model ----
(***************************************************************************)
(* Per-book RAG engine of the reader's AI assistant: the index build       *)
(* (ragService.indexBook), the per-book store (AIStore), the retrieval     *)
(* functions (vector, BM25 and hybrid search, page and chapter context)    *)
(* and the indexing controls of the assistant panel (AIAssistant).         *)
(***************************************************************************)
EXTENDS Integers, Sequences, FiniteSets, TLC

\* ------------------------------------------------------------------------
\* Bounds of the model
\* ------------------------------------------------------------------------
\* sections of the book document handed to indexBook
NumSections == 2
\* chunks the chunker cuts out of one section that is long enough
ChunksPerSection == 3

\* largest topK a retrieval call asks for
MaxK == 2
\* largest page bound (maxPage, currentPage) a retrieval call passes
MaxPageBound == 1
\* clearBookIndex calls the model follows
MaxClears == 2
\* AIStore calls the model follows in one behaviour
MaxStoreOps == 2
\* entries of a table of contents
MaxTocLen == 2
MaxTexts == 11
\* indexedDB.open requests of AIStore.openDB the model follows
MaxOpens == 3
\* runs of the chat adapter that overlap
MaxRequests == 2

\* indexBook calls (one abort controller each) the model follows
RunOrder == <<"r1", "r2">>
Runs == {RunOrder[k] : k \in DOMAIN RunOrder}
\* book hashes; every indexBook call of the model indexes TheBook
Books == {"B1", "B2"}
TheBook == "B1"

\* ------------------------------------------------------------------------
\* Program constants
\* ------------------------------------------------------------------------
BATCH_SIZE == 5

AbortedMsg == "Indexing aborted"
AbortErrorName == "AbortError"
TxErrorMsg == "TX error"
CallbackErrorMsg == "onProgress threw"

VARIABLES
    db,              \* per book: the object stores chunks, bookMeta, bm25Indices
    chunkCache,      \* AIStore.chunkCache
    indexCache,      \* AIStore.indexCache
    metaCache,       \* AIStore.metaCache
    dbs,             \* AIStore.dbs: the books whose database handle is in the map
    indexingStates,  \* ragService.indexingStates: book -> run whose state object is registered
    run,             \* per indexBook call: position, locals, its IndexingState object, progress events
    aborted,         \* per indexBook call: abortSignal.aborted
    uiIsIndexing,    \* AIAssistant: isIndexing
    uiIndexed,       \* AIAssistant: indexed
    abortRef,        \* AIAssistant: abortControllerRef.current
    reset,           \* AIAssistant: an onResetIndex handler in flight
    search,          \* the last retrieval call: its arguments and what it returned
    clear,           \* ragService.clearBookIndex: a call in flight, the calls made, the last outcome
    convStore,       \* per book: the object store conversations
    msgStore,        \* per book: the object store messages
    conversationCache, \* AIStore.conversationCache
    storeOp,         \* the last AIStore call: its name, book, arguments, outcome; the calls made
    lastSources,     \* TauriChatAdapter: the module variable lastSources
    lastWrite,       \* which statement assigned lastSources last
    optionsRef,      \* AIAssistantChat: optionsRef.current
    chat,            \* the adapter's run: its position, its locals, what it passed on
    titleCall,       \* the last getChapterTitle call: its arguments and what it returned
    embedCall,       \* the OpenAI-compatible embedding loop of indexBook: its locals
    idb,             \* IndexedDB: the open requests AIStore.openDB made, and the handle AIStore.dbs records per book
    requests         \* TauriChatAdapter: the runs of the adapter that overlap, each with its locals

\* the records and their caches
dataVars == <<db, chunkCache, indexCache, metaCache>>
storeVars == <<dataVars, dbs>>
uiVars == <<uiIsIndexing, uiIndexed, abortRef, reset>>
vars == <<db, chunkCache, indexCache, metaCache, dbs, indexingStates, run, aborted,
          uiIsIndexing, uiIndexed, abortRef, reset, search, clear,
          convStore, msgStore, conversationCache, storeOp,
          lastSources, lastWrite, optionsRef, chat, titleCall, embedCall, idb, requests>>
convVars == <<convStore, msgStore, conversationCache>>
chatVars == <<lastSources, lastWrite, optionsRef, chat>>
\* what the indexing pipeline and the assistant panel never touch
otherVars == <<search, clear, convVars, storeOp, chatVars, titleCall, embedCall, idb, requests>>

\* ------------------------------------------------------------------------
\* Values
\* ------------------------------------------------------------------------
NoRun == "none"
NoEmbedding == [present |-> FALSE, vec |-> <<>>]
NoMeta == [present |-> FALSE, totalChunks |-> 0]
NoIndex == [present |-> FALSE, docs |-> {}, loadable |-> TRUE]
NoChunkCache == [has |-> FALSE, chunks |-> <<>>]
NoIndexCache == [has |-> FALSE, docs |-> {}]
NoMetaCache == [has |-> FALSE, meta |-> NoMeta]
NoSearch == [op |-> "none", topK |-> 0, maxPage |-> -1, pageNumber |-> -1,
             hasEmbedding |-> FALSE, result |-> <<>>, vector |-> <<>>, bm25 |-> <<>>,
             query |-> {}, queryEmbedding |-> NoEmbedding]
NoCache == [has |-> FALSE, list |-> <<>>]
NoStoreOp == [name |-> "none", book |-> "none", id |-> 0, ok |-> TRUE, result |-> <<>>,
              calls |-> 0, recovered |-> FALSE]
NoClear == [pc |-> "idle", calls |-> 0, last |-> "none"]
NoTitleCall == [called |-> FALSE, toc |-> <<>>, sectionIndex |-> 0, result |-> ""]
NoEmbedCall == [pc |-> "idle", texts |-> <<>>, i |-> 0, sent |-> <<>>, response |-> <<>>,
                embeddings |-> <<>>, assigned |-> <<>>]
NoState == [registered |-> FALSE, status |-> "idle", progress |-> 0,
            chunksProcessed |-> 0, totalChunks |-> 0, error |-> ""]

Sections == 0 .. (NumSections - 1)

\* the embedding the provider returns for the text of chunk (s, j)
EmbeddingOf(s, j) == [present |-> TRUE, vec |-> <<1, 0>>]

\* chunkSection: the j-th chunk of section s, without embedding
ChunkOf(s, j) ==
    [id |-> <<s, j>>, bookHash |-> TheBook, sectionIndex |-> s, pageNumber |-> s,
     text |-> [key |-> <<s, j>>, terms |-> {"w"}], embedding |-> NoEmbedding]

SectionChunks(s) == [j \in 1 .. ChunksPerSection |-> ChunkOf(s, j - 1)]

Ids(chunks) == {chunks[k].id : k \in DOMAIN chunks}

Ev(phase, current, total) == [phase |-> phase, current |-> current, total |-> total]

Min(a, b) == IF a <= b THEN a ELSE b

\* Math.round(x / y * 100) for 0 <= x <= y, y > 0
RoundPercent(x, y) == (200 * x + y) \div (2 * y)

\* ------------------------------------------------------------------------
\* AIStore: reads and the effects of completed transactions
\* ------------------------------------------------------------------------
Range(seq) == {seq[k] : k \in DOMAIN seq}

\* openDB(bookHash) resolved: the handle of the book is in the map
OpenDB(b) == dbs \cup {b}

\* openDB(bookHash) settled: when the open request fails no handle is kept
OpenDBSettled(b) == {dbs, OpenDB(b)}

\* a read served from its cache returns before openDB
OpenDBUnless(cached, b) == IF cached THEN dbs ELSE OpenDB(b)

\* getMeta: the cached record if any, else the record of the bookMeta store
GetMeta(b) == IF metaCache[b].has THEN metaCache[b].meta ELSE db[b].meta

\* getMeta fills the cache when it had to read the store and found a record
MetaCacheAfterGet(b) ==
    IF ~metaCache[b].has /\ db[b].meta.present
    THEN [has |-> TRUE, meta |-> db[b].meta]
    ELSE metaCache[b]

IsIndexed(b) == LET meta == GetMeta(b) IN meta.present /\ meta.totalChunks > 0

\* objectStore.put for every chunk: same key replaces, other keys stay
PutChunks(stored, chunks) ==
    {c \in stored : c.id \notin Ids(chunks)} \cup Range(chunks)

\* saveChunks, transaction completed
SaveChunksDb(d, chunks) == [d EXCEPT !.chunks = PutChunks(@, chunks)]

\* lunr builder: one document {id, text} per chunk
Docs(chunks) == {[id |-> chunks[k].id, terms |-> chunks[k].text.terms] : k \in DOMAIN chunks}

\* saveBM25Index, transaction completed: one record holding the serialized index
SaveBM25Db(d, chunks) ==
    [d EXCEPT !.bm25 = [present |-> TRUE, docs |-> Docs(chunks), loadable |-> TRUE]]

\* saveMeta, transaction completed
SaveMetaDb(d, meta) == [d EXCEPT !.meta = meta]

ClearBookDbChunksOnly(d) == [d EXCEPT !.chunks = {}]

\* clearBook, transaction completed: the three stores are emptied
ClearBookDb(d) == [d EXCEPT !.chunks = {}, !.meta = NoMeta, !.bm25 = NoIndex]

\* getChunks reading the store: getAll() returns the records in key order
RECURSIVE SortedById(_)
SortedById(S) ==
    IF S = {} THEN <<>>
    ELSE LET lo == CHOOSE c \in S : \A d \in S :
                       \/ c.id[1] < d.id[1]
                       \/ c.id[1] = d.id[1] /\ c.id[2] <= d.id[2]
         IN <<lo>> \o SortedById(S \ {lo})

GetChunks(b) ==
    IF chunkCache[b].has THEN chunkCache[b].chunks ELSE SortedById(db[b].chunks)

\* ------------------------------------------------------------------------
\* ragService.indexBook: the code between two awaits, as a function from the
\* call's locals to the set of places it can reach next
\* ------------------------------------------------------------------------
NewRun == [pc |-> "idle", i |-> 0, bs |-> 0, allChunks |-> <<>>, state |-> NoState,
           events |-> <<>>, writes |-> <<>>]

Emit(l, ev) == [l EXCEPT !.events = Append(@, ev)]

\* catch (error) { state.status = 'error'; state.error = message; throw error }
Fail(l, msg) ==
    [l EXCEPT !.pc = "rejected", !.state.status = "error", !.state.error = msg]

\* state.status = 'complete'; state.progress = 100
Complete(l) ==
    [l EXCEPT !.pc = "resolved", !.state.status = "complete", !.state.progress = 100]

CompleteSet(l) == {Complete(l)}

\* onProgress?.(ev) outside the embedding try: the callback returns, or throws
\* into the outer catch
OnProgress(l, ev, Cont(_)) ==
    {Fail(Emit(l, ev), CallbackErrorMsg)} \cup Cont(Emit(l, ev))

\* after saveMeta resolved
AfterSaveMeta(l) == OnProgress(l, Ev("indexing", 2, 2), CompleteSet)

StartSaveMeta(l) == {[l EXCEPT !.pc = "saveMeta"]}

\* after saveBM25Index resolved: the meta record is built and saveMeta awaited
AfterSaveBM25(l) == StartSaveMeta(l)

StartSaveBM25SkippingIndex(l) == {[l EXCEPT !.pc = "saveMeta"]}
StartSaveBM25(l) == {[l EXCEPT !.pc = "saveBM25"]}

\* after saveChunks resolved
AfterSaveChunks(l) == OnProgress(l, Ev("indexing", 1, 2), StartSaveBM25)

StartSaveChunks(l) == {[l EXCEPT !.pc = "saveChunks"]}

BeforePersistNoAbortCheck(l, ab) ==
    OnProgress(l, Ev("indexing", 0, 2), StartSaveChunks)

\* if (abortSignal?.aborted) throw; onProgress(indexing 0); await saveChunks
BeforePersist(l, ab) ==
    IF ab THEN {Fail(l, AbortedMsg)}
    ELSE OnProgress(l, Ev("indexing", 0, 2), StartSaveChunks)

\* allChunks[i].embedding = embeddings[i]; state.chunksProcessed; state.progress
AssignEmbeddings(l) ==
    LET n == Len(l.allChunks) IN
    [l EXCEPT !.allChunks = [k \in 1 .. n |->
                  [l.allChunks[k] EXCEPT !.embedding =
                       EmbeddingOf(l.allChunks[k].id[1], l.allChunks[k].id[2])]],
              !.state.chunksProcessed = n,
              !.state.progress = RoundPercent(n, n)]

\* all embeddings received: abort check, assignment, final embedding event (a
\* throw of that callback is swallowed by the inner catch, so either way the
\* code arrives at the abort check before the persistence phase)
EmbeddingsReceived(l, ab) ==
    IF ab THEN {Fail(l, AbortedMsg)}
    ELSE LET a == AssignEmbeddings(l)
             n == Len(l.allChunks)
         IN BeforePersist(Emit(a, Ev("embedding", n, n)), ab)

\* one batch answered, the progress counted by BATCH_SIZE instead of batch.length
BatchReceivedCountsBatchSize(l, ab) ==
    LET n == Len(l.allChunks)
        processed == l.bs + BATCH_SIZE
        e == Emit(l, Ev("embedding", processed, n))
        next == l.bs + BATCH_SIZE
    IN  BeforePersist(e, ab) \cup
        (IF next < n
         THEN IF ab THEN {Fail(e, AbortedMsg)} ELSE {[e EXCEPT !.bs = next]}
         ELSE EmbeddingsReceived(e, ab))

\* one batch answered: push, progress event (a throw is swallowed by the inner
\* catch and ends the embedding phase), next batch or the end of the loop
BatchReceived(l, ab) ==
    LET n == Len(l.allChunks)
        processed == Min(l.bs + BATCH_SIZE, n)
        e == Emit(l, Ev("embedding", processed, n))
        next == l.bs + BATCH_SIZE
    IN  BeforePersist(e, ab) \cup
        (IF next < n
         THEN IF ab THEN {Fail(e, AbortedMsg)} ELSE {[e EXCEPT !.bs = next]}
         ELSE EmbeddingsReceived(e, ab))

\* the embedding call failed: an abort is rethrown, anything else swallowed
EmbeddingFailed(l, ab, kind) ==
    IF kind = "abort" THEN {Fail(l, AbortErrorName)} ELSE BeforePersist(l, ab)

\* settings.provider === 'openai' ? batch loop : embedMany
StartEmbedding(l) ==
    {[l EXCEPT !.pc = "embedBatch", !.bs = 0], [l EXCEPT !.pc = "embedMany"]}

AfterChunkingPersistsEmpty(l, ab) ==
    LET n == Len(l.allChunks)
        t == [l EXCEPT !.state.totalChunks = n]
    IN  IF ab THEN {Fail(t, AbortedMsg)}
        ELSE IF n = 0 THEN BeforePersist(t, ab)
        ELSE OnProgress(t, Ev("embedding", 0, n), StartEmbedding)

\* after the section loop
AfterChunking(l, ab) ==
    LET n == Len(l.allChunks)
        t == [l EXCEPT !.state.totalChunks = n]
    IN  IF n = 0 THEN {Complete(t)}
        ELSE IF ab THEN {Fail(t, AbortedMsg)}
        ELSE OnProgress(t, Ev("embedding", 0, n), StartEmbedding)

\* top of the section loop for index i
SectionLoop(l, ab) ==
    IF l.i < NumSections
    THEN IF ab THEN {Fail(l, AbortedMsg)} ELSE {[l EXCEPT !.pc = "section"]}
    ELSE AfterChunking(l, ab)

\* a throwing section, let through to the outer catch
SectionProcessedThrowFails(l, ab, outcome) ==
    IF outcome = "throw" THEN {Fail(l, "section failed")}
    ELSE LET added == IF outcome = "ok" THEN SectionChunks(l.i) ELSE <<>>
         IN  SectionLoop([l EXCEPT !.allChunks = @ \o added, !.i = @ + 1], ab)

\* createDocument / extractTextFromDocument / chunkSection of section i ended
SectionProcessed(l, ab, outcome) ==
    LET added == IF outcome = "ok" THEN SectionChunks(l.i) ELSE <<>>
    IN  SectionLoop([l EXCEPT !.allChunks = @ \o added, !.i = @ + 1], ab)

StartChunking(l) == SectionLoop([l EXCEPT !.i = 0], FALSE)

\* the guard found the book not indexed: register the state, enter the try
Register(l) ==
    [l EXCEPT !.state = [registered |-> TRUE, status |-> "indexing", progress |-> 0,
                         chunksProcessed |-> 0, totalChunks |-> 0, error |-> ""]]

EnterTry(l, ab) ==
    IF ab THEN {Fail(l, AbortedMsg)}
    ELSE OnProgress(l, Ev("chunking", 0, 1), StartChunking)

\* ------------------------------------------------------------------------
\* Scores: rationals <<numerator, denominator>> with a positive denominator
\* ------------------------------------------------------------------------
Abs(x) == IF x < 0 THEN -x ELSE x

RECURSIVE Gcd(_, _)
Gcd(a, b) == IF b = 0 THEN a ELSE Gcd(b, a % b)

Rat(n, d) ==
    LET g == Gcd(Abs(n), Abs(d))
        sign == IF d < 0 THEN -1 ELSE 1
    IN  <<sign * (n \div g), sign * (d \div g)>>

Zero == <<0, 1>>
RatLess(x, y) == x[1] * y[2] < y[1] * x[2]
RatLeq(x, y) == x[1] * y[2] <= y[1] * x[2]
RatMul(x, y) == Rat(x[1] * y[1], x[2] * y[2])
RatDiv(x, y) == Rat(x[1] * y[2], x[2] * y[1])
RatMax(x, y) == IF RatLess(x, y) THEN y ELSE x

\* Math.sqrt on the squared norms of the model's vectors (perfect squares)
Sqrt(n) == CHOOSE root \in 0 .. n : root * root = n

RECURSIVE SumTo(_, _, _)
SumTo(a, b, k) == IF k = 0 THEN 0 ELSE a[k] * b[k] + SumTo(a, b, k - 1)

cosineSimilarity(a, b) ==
    IF Len(a) # Len(b) THEN Zero
    ELSE LET dot == SumTo(a, b, Len(a))
             denom == Sqrt(SumTo(a, a, Len(a))) * Sqrt(SumTo(b, b, Len(b)))
         IN  IF denom = 0 THEN Zero ELSE Rat(dot, denom)

\* ------------------------------------------------------------------------
\* AIStore: retrieval
\* ------------------------------------------------------------------------
NoPage == -1

\* { ...chunk, score, searchMethod }
Scored(c, score, method) ==
    [id |-> c.id, bookHash |-> c.bookHash, sectionIndex |-> c.sectionIndex,
     pageNumber |-> c.pageNumber, text |-> c.text, embedding |-> c.embedding,
     score |-> score, searchMethod |-> method]

\* maxPage !== undefined && chunk.pageNumber > maxPage
PastMaxPage(c, maxPage) == maxPage # NoPage /\ c.pageNumber > maxPage

\* array.slice(0, n) for n >= 0
Slice(seq, n) == SubSeq(seq, 1, Min(n, Len(seq)))

\* x goes behind every element whose score is not smaller (the sort is stable)
RECURSIVE InsertDesc(_, _)
InsertDesc(sorted, x) ==
    IF sorted = <<>> THEN <<x>>
    ELSE IF RatLess(Head(sorted).score, x.score) THEN <<x>> \o sorted
    ELSE <<Head(sorted)>> \o InsertDesc(Tail(sorted), x)

\* results.sort((a, b) => b.score - a.score)
RECURSIVE SortDesc(_)
SortDesc(seq) ==
    IF seq = <<>> THEN <<>>
    ELSE InsertDesc(SortDesc(SubSeq(seq, 1, Len(seq) - 1)), seq[Len(seq)])

\* vectorSearch over the chunks getChunks returned
VectorSearch(chunks, queryEmbedding, topK, maxPage) ==
    LET kept == SelectSeq(chunks,
                    LAMBDA c : ~PastMaxPage(c, maxPage) /\ c.embedding.present)
        scored == [k \in DOMAIN kept |->
                     Scored(kept[k],
                            cosineSimilarity(queryEmbedding, kept[k].embedding.vec),
                            "vector")]
    IN  Slice(SortDesc(scored), topK)

\* lunr: the query either fails to parse or is a set of terms
Unparsable == {"!"}
QueryThrows(query) == query = Unparsable

\* lunr index.search(query): the documents sharing a term with the query, best
\* score first; the score grows with the number of query terms found
RECURSIVE DocsInOrder(_)
DocsInOrder(docs) ==
    IF docs = {} THEN <<>>
    ELSE LET lo == CHOOSE c \in docs : \A d \in docs :
                       \/ c.id[1] < d.id[1]
                       \/ c.id[1] = d.id[1] /\ c.id[2] <= d.id[2]
         IN <<lo>> \o DocsInOrder(docs \ {lo})

IndexSearch(docs, query) ==
    LET hits == SelectSeq(DocsInOrder(docs), LAMBDA d : d.terms \cap query # {})
    IN  SortDesc([k \in DOMAIN hits |->
                    [ref |-> hits[k].id,
                     score |-> <<Cardinality(hits[k].terms \cap query), 1>>]])

\* the loop of bm25Search over the lunr results: push, then break at topK
RECURSIVE Bm25Loop(_, _, _, _, _)
Bm25Loop(results, chunks, topK, maxPage, scored) ==
    IF results = <<>> THEN scored
    ELSE LET ref == Head(results).ref
             found == SelectSeq(chunks, LAMBDA c : c.id = ref)
         IN  IF found = <<>> \/ PastMaxPage(found[Len(found)], maxPage)
             THEN Bm25Loop(Tail(results), chunks, topK, maxPage, scored)
             ELSE LET pushed == Append(scored,
                                  Scored(found[Len(found)], Head(results).score, "bm25"))
                  IN  IF Len(pushed) >= topK THEN pushed
                      ELSE Bm25Loop(Tail(results), chunks, topK, maxPage, pushed)

\* bm25Search over the loaded index and the chunks getChunks returned
Bm25Search(index, chunks, query, topK, maxPage) ==
    IF ~index.has THEN <<>>
    ELSE IF QueryThrows(query) THEN <<>>
    ELSE Bm25Loop(IndexSearch(index.docs, query), chunks, topK, maxPage, <<>>)

RECURSIVE MaxScore(_)
MaxScore(results) ==
    IF Len(results) = 1 THEN results[1].score
    ELSE RatMax(results[1].score, MaxScore(Tail(results)))

\* normalize(results, weight) of hybridSearch
Normalize(results, weight) ==
    IF results = <<>> THEN <<>>
    ELSE LET max == MaxScore(results) IN
         [k \in DOMAIN results |->
            [results[k] EXCEPT !.score =
                IF RatLess(Zero, max)
                THEN RatMul(RatDiv(results[k].score, max), weight)
                ELSE Zero]]

VectorWeight == <<1, 1>>
Bm25Weight == <<4, 5>>

\* r.text.slice(0, 100)
MergeKey(r) == r.text.key

RECURSIVE MergeFirstWins(_, _)
MergeFirstWins(weighted, merged) ==
    IF weighted = <<>> THEN merged
    ELSE IF \E k \in DOMAIN merged : MergeKey(merged[k]) = MergeKey(Head(weighted))
         THEN MergeFirstWins(Tail(weighted), merged)
         ELSE MergeFirstWins(Tail(weighted), Append(merged, Head(weighted)))

\* the merge loop of hybridSearch: the Map keeps insertion order
RECURSIVE Merge(_, _)
Merge(weighted, merged) ==
    IF weighted = <<>> THEN merged
    ELSE LET r == Head(weighted)
             at == {k \in DOMAIN merged : MergeKey(merged[k]) = MergeKey(r)}
         IN  IF at # {}
             THEN LET k == CHOOSE x \in at : TRUE IN
                  Merge(Tail(weighted),
                        [merged EXCEPT ![k] = [@ EXCEPT !.score = RatMax(@, r.score),
                                                        !.searchMethod = "hybrid"]])
             ELSE Merge(Tail(weighted), Append(merged, r))

\* the two sub-searches of hybridSearch, each asked for 2 * topK candidates
HybridVector(index, chunks, queryEmbedding, query, topK, maxPage) ==
    IF queryEmbedding.present
    THEN VectorSearch(chunks, queryEmbedding.vec, topK * 2, maxPage)
    ELSE <<>>

HybridBm25(index, chunks, queryEmbedding, query, topK, maxPage) ==
    Bm25Search(index, chunks, query, topK * 2, maxPage)

HybridSearchNoSlice(index, chunks, queryEmbedding, query, topK, maxPage) ==
    LET vectorResults == HybridVector(index, chunks, queryEmbedding, query, topK, maxPage)
        bm25Results == HybridBm25(index, chunks, queryEmbedding, query, topK, maxPage)
        weighted == Normalize(vectorResults, VectorWeight)
                        \o Normalize(bm25Results, Bm25Weight)
    IN  SortDesc(Merge(weighted, <<>>))

\* AIStore.hybridSearch
HybridSearch(index, chunks, queryEmbedding, query, topK, maxPage) ==
    LET vectorResults == HybridVector(index, chunks, queryEmbedding, query, topK, maxPage)
        bm25Results == HybridBm25(index, chunks, queryEmbedding, query, topK, maxPage)
        weighted == Normalize(vectorResults, VectorWeight)
                        \o Normalize(bm25Results, Bm25Weight)
    IN  Slice(SortDesc(Merge(weighted, <<>>)), topK)

\* getChunksForPage / getChunksForSection
GetChunksForPage(chunks, pageNumber) ==
    SelectSeq(chunks, LAMBDA c : c.pageNumber = pageNumber)

GetChunksForSection(chunks, sectionIndex) ==
    SelectSeq(chunks, LAMBDA c : c.sectionIndex = sectionIndex)

\* ------------------------------------------------------------------------
\* ragService: context retrieval
\* ------------------------------------------------------------------------
ContextScoreOne == <<1, 1>>
ContextScore == <<2, 1>>

AsContextScoreOne(chunks) ==
    [k \in DOMAIN chunks |-> Scored(chunks[k], ContextScoreOne, "context")]

\* chunks.map((c) => ({ ...c, score: 2.0, searchMethod: 'context' }))
AsContext(chunks) ==
    [k \in DOMAIN chunks |-> Scored(chunks[k], ContextScore, "context")]

GetPageContextChunks(chunks, pageNumber) ==
    AsContext(GetChunksForPage(chunks, pageNumber))

GetChapterContextChunksLastOnPage(chunks, pageNumber) ==
    LET pageChunks == GetChunksForPage(chunks, pageNumber) IN
    IF pageChunks = <<>> THEN <<>>
    ELSE AsContext(GetChunksForSection(chunks, pageChunks[Len(pageChunks)].sectionIndex))

\* getChapterContextChunks: the section of pageChunks[0], then every chunk of it
GetChapterContextChunks(chunks, pageNumber) ==
    LET pageChunks == GetChunksForPage(chunks, pageNumber) IN
    IF pageChunks = <<>> THEN <<>>
    ELSE AsContext(GetChunksForSection(chunks, pageChunks[1].sectionIndex))

\* ------------------------------------------------------------------------
\* AIStore: conversations and messages
\* ------------------------------------------------------------------------
InitConversations ==
    /\ convStore = [b \in Books |-> {}]
    /\ msgStore = [b \in Books |-> {}]
    /\ conversationCache = [b \in Books |-> NoCache]
    /\ storeOp = NoStoreOp

\* store.put(record): the record replaces the one with the same key
Put(records, record) == {x \in records : x.id # record.id} \cup {record}

\* getAll(): the records in key order
RECURSIVE ByKey(_)
ByKey(records) ==
    IF records = {} THEN <<>>
    ELSE LET lo == CHOOSE x \in records : \A y \in records : x.id <= y.id
         IN  <<lo>> \o ByKey(records \ {lo})

\* array.sort by an integer key, smallest first; the sort is stable
RECURSIVE InsertKeyed(_, _)
InsertKeyed(sorted, x) ==
    IF sorted = <<>> THEN <<x>>
    ELSE IF x.k < Head(sorted).k THEN <<x>> \o sorted
    ELSE <<Head(sorted)>> \o InsertKeyed(Tail(sorted), x)

RECURSIVE SortKeyed(_)
SortKeyed(seq) ==
    IF seq = <<>> THEN <<>>
    ELSE InsertKeyed(SortKeyed(SubSeq(seq, 1, Len(seq) - 1)), seq[Len(seq)])

Values(keyed) == [i \in DOMAIN keyed |-> keyed[i].v]

\* getConversations reading the store: sort((a, b) => b.updatedAt - a.updatedAt)
ReadConversationsOf(records) ==
    LET all == ByKey(records) IN
    Values(SortKeyed([i \in DOMAIN all |-> [k |-> 0 - all[i].updatedAt, v |-> all[i]]]))

ReadConversations(b) == ReadConversationsOf(convStore[b])

\* what getConversations(bookHash) resolves to, from the cache entry and the
\* store of the book
GetConversationsOf(cache, records) ==
    IF cache.has THEN cache.list ELSE ReadConversationsOf(records)

GetConversations(b) == GetConversationsOf(conversationCache[b], convStore[b])

\* what getMessages(bookHash, conversationId) resolves to:
\* sort((a, b) => a.createdAt - b.createdAt)
GetMessagesOf(records, id) ==
    LET all == ByKey({x \in records : x.conversationId = id}) IN
    Values(SortKeyed([i \in DOMAIN all |-> [k |-> all[i].createdAt, v |-> all[i]]]))

GetMessages(b, id) == GetMessagesOf(msgStore[b], id)

\* ------------------------------------------------------------------------
\* TauriChatAdapter: the options a run reads and its locals
\* ------------------------------------------------------------------------
\* settings.maxContextChunks || 5
DefaultContextChunks == 5

\* AISettings as a run uses them: whether getAIProvider accepts them,
\* spoilerProtection and maxContextChunks
AISettings == {[valid |-> TRUE, spoilerProtection |-> FALSE, maxContextChunks |-> 0],
               [valid |-> TRUE, spoilerProtection |-> TRUE, maxContextChunks |-> 1],
               [valid |-> TRUE, spoilerProtection |-> TRUE, maxContextChunks |-> 2],
               [valid |-> FALSE, spoilerProtection |-> FALSE, maxContextChunks |-> 1]}
\* the title of each book; authorName travels with it
BookTitle == [b \in Books |-> IF b = TheBook THEN "t1" ELSE "t2"]

\* TauriAdapterOptions: the panel's settings, its book and the page shown
Options ==
    {[settings |-> st, bookHash |-> b, bookTitle |-> BookTitle[b], currentPage |-> pg] :
        st \in AISettings, b \in Books, pg \in 0 .. MaxPageBound}

FirstOptions ==
    [settings |-> [valid |-> TRUE, spoilerProtection |-> FALSE, maxContextChunks |-> 0],
     bookHash |-> TheBook, bookTitle |-> "t1", currentPage |-> 0]

NoRetrieval == [bookHash |-> "none", pageNumber |-> -1, topK |-> 0, maxPage |-> -1]
NoPrompt == [built |-> FALSE, bookTitle |-> "none", currentPage |-> -1, chunks |-> <<>>]
NoChat == [pc |-> "idle", options |-> FirstOptions, query |-> {}, asked |-> "none",
           indexed |-> FALSE, retrieval |-> NoRetrieval, retrieved |-> "none",
           pageChunks |-> <<>>, searchChunks |-> <<>>, chunks |-> <<>>,
           prompt |-> NoPrompt, ended |-> "none"]

\* the indexedDB.open requests made so far, each with the handle it gave, and
\* the request whose handle AIStore.dbs holds for a book (0: no entry)
OpenIds == 1 .. MaxOpens
NoOpen == [book |-> "none", state |-> "none"]
NoHandles == [opens |-> [k \in OpenIds |-> NoOpen], recorded |-> [b \in Books |-> 0]]

\* the runs of the adapter: seq is the order in which they started
Requests == 1 .. MaxRequests
NoRequest == [pc |-> "idle", seq |-> 0, options |-> FirstOptions, query |-> {},
              sources |-> <<>>]
NoRequests == [i \in Requests |-> NoRequest]

\* let lastSources = []; the panel's first options
InitAdapter ==
    /\ lastSources = <<>>
    /\ lastWrite = "none"
    /\ optionsRef = FirstOptions
    /\ chat = NoChat

\* ------------------------------------------------------------------------
\* Actions
\* ------------------------------------------------------------------------
Init ==
    /\ db = [b \in Books |-> [chunks |-> {}, meta |-> NoMeta, bm25 |-> NoIndex]]
    /\ chunkCache = [b \in Books |-> NoChunkCache]
    /\ indexCache = [b \in Books |-> NoIndexCache]
    /\ metaCache = [b \in Books |-> NoMetaCache]
    /\ dbs = {}
    /\ indexingStates = [b \in Books |-> NoRun]
    /\ run = [r \in Runs |-> NewRun]
    /\ aborted = [r \in Runs |-> FALSE]
    /\ uiIsIndexing = FALSE
    /\ uiIndexed = FALSE
    /\ abortRef = NoRun
    /\ reset = [pc |-> "idle", mayIndex |-> FALSE]
    /\ search = NoSearch
    /\ clear = NoClear
    /\ InitConversations
    /\ InitAdapter
    /\ titleCall = NoTitleCall
    /\ embedCall = NoEmbedCall
    /\ idb = NoHandles
    /\ requests = NoRequests

Settled(l) == l.pc \in {"resolved", "rejected"}

\* the first run identifier not used yet
IsNextRun(r) ==
    /\ run[r].pc = "idle"
    /\ \A k \in DOMAIN RunOrder :
         RunOrder[k] = r => \A j \in 1 .. (k - 1) : run[RunOrder[j]].pc # "idle"

\* performIndexing, after its await of indexBook: the try's tail or the catch
AfterIndexBook(o) ==
    IF o.pc = "resolved"
    THEN /\ uiIndexed' = TRUE
         /\ uiIsIndexing' = FALSE
         /\ abortRef' = NoRun
    ELSE IF o.pc = "rejected"
    THEN /\ uiIsIndexing' = FALSE
         /\ abortRef' = NoRun
         /\ UNCHANGED uiIndexed
    ELSE UNCHANGED <<uiIsIndexing, uiIndexed, abortRef>>

\* the locals of a call that settled are gone
Locals(o) ==
    IF Settled(o) THEN [o EXCEPT !.i = 0, !.bs = 0, !.allChunks = <<>>] ELSE o

\* run r moves to o; when that settles the call, performIndexing continues
Move(r, o) ==
    /\ run' = [run EXCEPT ![r] = Locals(o)]
    /\ AfterIndexBook(o)
    /\ UNCHANGED <<aborted, reset, otherVars>>

\* performIndexing up to its first await
PerformIndexing(r) ==
    /\ IsNextRun(r)
    /\ ~uiIsIndexing
    /\ ~uiIndexed
    /\ abortRef' = r
    /\ uiIsIndexing' = TRUE
    /\ run' = [run EXCEPT ![r].pc = "called"]
    /\ UNCHANGED <<storeVars, indexingStates, aborted, uiIndexed, reset, otherVars>>

\* cancelIndexing
CancelIndexing ==
    /\ abortRef # NoRun
    /\ aborted' = [aborted EXCEPT ![abortRef] = TRUE]
    /\ abortRef' = NoRun
    /\ uiIsIndexing' = FALSE
    /\ UNCHANGED <<storeVars, indexingStates, run, uiIndexed, reset, otherVars>>

IndexBookEnterRegistersFirst(r) ==
    /\ run[r].pc = "called"
    /\ metaCache' = [metaCache EXCEPT ![TheBook] = MetaCacheAfterGet(TheBook)]
    /\ indexingStates' = [indexingStates EXCEPT ![TheBook] = r]
    /\ IF IsIndexed(TheBook)
       THEN Move(r, [Register(run[r]) EXCEPT !.pc = "resolved"])
       ELSE \E o \in EnterTry(Register(run[r]), aborted[r]) : Move(r, o)
    /\ dbs' = OpenDBUnless(metaCache[TheBook].has, TheBook)
    /\ UNCHANGED <<db, chunkCache, indexCache>>

\* indexBook: the isIndexed guard and the code up to the first createDocument
IndexBookEnter(r) ==
    /\ run[r].pc = "called"
    /\ metaCache' = [metaCache EXCEPT ![TheBook] = MetaCacheAfterGet(TheBook)]
    /\ IF IsIndexed(TheBook)
       THEN /\ Move(r, [run[r] EXCEPT !.pc = "resolved"])
            /\ UNCHANGED indexingStates
       ELSE /\ indexingStates' = [indexingStates EXCEPT ![TheBook] = r]
            /\ \E o \in EnterTry(Register(run[r]), aborted[r]) : Move(r, o)
    /\ dbs' = OpenDBUnless(metaCache[TheBook].has, TheBook)
    /\ UNCHANGED <<db, chunkCache, indexCache>>

\* the section's document was created, extracted and chunked, or that threw,
\* or the text was shorter than 100 characters
SectionDone(r) ==
    /\ run[r].pc = "section"
    /\ \E outcome \in {"ok", "short", "throw"} :
         \E o \in SectionProcessed(run[r], aborted[r], outcome) : Move(r, o)
    /\ UNCHANGED <<storeVars, indexingStates>>

\* outcomes of an embedding request: the abort error needs an aborted signal
EmbedOutcomes(ab) == {"ok", "error"} \cup (IF ab THEN {"abort"} ELSE {})

\* withRetryAndTimeout of one OpenAI batch settled
EmbedBatchDone(r) ==
    /\ run[r].pc = "embedBatch"
    /\ \E res \in EmbedOutcomes(aborted[r]) :
         \E o \in (IF res = "ok" THEN BatchReceived(run[r], aborted[r])
                   ELSE EmbeddingFailed(run[r], aborted[r], res)) : Move(r, o)
    /\ UNCHANGED <<storeVars, indexingStates>>

\* withRetryAndTimeout of embedMany settled
EmbedManyDone(r) ==
    /\ run[r].pc = "embedMany"
    /\ \E res \in EmbedOutcomes(aborted[r]) :
         \E o \in (IF res = "ok" THEN EmbeddingsReceived(run[r], aborted[r])
                   ELSE EmbeddingFailed(run[r], aborted[r], res)) : Move(r, o)
    /\ UNCHANGED <<storeVars, indexingStates>>

Wrote(l, what) == [l EXCEPT !.writes = Append(@, what)]

\* aiStore.saveChunks(allChunks) settled
SaveChunksDone(r) ==
    /\ run[r].pc = "saveChunks"
    /\ \/ /\ db' = [db EXCEPT ![TheBook] = SaveChunksDb(@, run[r].allChunks)]
          /\ chunkCache' = [chunkCache EXCEPT
                               ![TheBook] = [has |-> TRUE, chunks |-> run[r].allChunks]]
          /\ dbs' = OpenDB(TheBook)
          /\ \E o \in AfterSaveChunks(Wrote(run[r], "chunks")) : Move(r, o)
       \/ /\ Move(r, Fail(run[r], TxErrorMsg))
          /\ dbs' \in OpenDBSettled(TheBook)
          /\ UNCHANGED <<db, chunkCache>>
    /\ UNCHANGED <<indexCache, metaCache, indexingStates>>

\* aiStore.saveBM25Index(bookHash, allChunks) settled
SaveBM25Done(r) ==
    /\ run[r].pc = "saveBM25"
    /\ \/ /\ db' = [db EXCEPT ![TheBook] = SaveBM25Db(@, run[r].allChunks)]
          /\ indexCache' = [indexCache EXCEPT
                               ![TheBook] = [has |-> TRUE, docs |-> Docs(run[r].allChunks)]]
          /\ dbs' = OpenDB(TheBook)
          /\ \E o \in AfterSaveBM25(Wrote(run[r], "bm25")) : Move(r, o)
       \/ /\ Move(r, Fail(run[r], TxErrorMsg))
          /\ dbs' \in OpenDBSettled(TheBook)
          /\ UNCHANGED <<db, indexCache>>
    /\ UNCHANGED <<chunkCache, metaCache, indexingStates>>

\* the meta record indexBook builds
MetaOf(l) == [present |-> TRUE, totalChunks |-> Len(l.allChunks)]

\* aiStore.saveMeta(meta) settled
SaveMetaDone(r) ==
    /\ run[r].pc = "saveMeta"
    /\ \/ /\ db' = [db EXCEPT ![TheBook] = SaveMetaDb(@, MetaOf(run[r]))]
          /\ metaCache' = [metaCache EXCEPT
                              ![TheBook] = [has |-> TRUE, meta |-> MetaOf(run[r])]]
          /\ dbs' = OpenDB(TheBook)
          /\ \E o \in AfterSaveMeta(Wrote(run[r], "meta")) : Move(r, o)
       \/ /\ Move(r, Fail(run[r], TxErrorMsg))
          /\ dbs' \in OpenDBSettled(TheBook)
          /\ UNCHANGED <<db, metaCache>>
    /\ UNCHANGED <<chunkCache, indexCache, indexingStates>>

\* onResetIndex up to its await of clearBookIndex; performIndexing is the
\* callback of the render the handler belongs to
ResetIndexStart ==
    /\ reset.pc = "idle"
    /\ uiIndexed' = FALSE
    /\ reset' = [pc |-> "clearing", mayIndex |-> ~uiIsIndexing /\ ~uiIndexed]
    /\ UNCHANGED <<storeVars, indexingStates, run, aborted, uiIsIndexing,
                   abortRef, otherVars>>

\* clearBookIndex settled, then performIndexing() of the handler's render
ResetIndexCleared ==
    /\ reset.pc = "clearing"
    /\ reset' = [pc |-> "idle", mayIndex |-> FALSE]
    /\ UNCHANGED otherVars
    /\ \/ /\ db' = [db EXCEPT ![TheBook] = ClearBookDb(@)]
          /\ chunkCache' = [chunkCache EXCEPT ![TheBook] = NoChunkCache]
          /\ indexCache' = [indexCache EXCEPT ![TheBook] = NoIndexCache]
          /\ metaCache' = [metaCache EXCEPT ![TheBook] = NoMetaCache]
          /\ dbs' = OpenDB(TheBook)
          /\ indexingStates' = [indexingStates EXCEPT ![TheBook] = NoRun]
          /\ IF reset.mayIndex
             THEN \E r \in Runs :
                    /\ IsNextRun(r)
                    /\ abortRef' = r
                    /\ uiIsIndexing' = TRUE
                    /\ run' = [run EXCEPT ![r].pc = "called"]
             ELSE UNCHANGED <<abortRef, uiIsIndexing, run>>
          /\ UNCHANGED <<aborted, uiIndexed>>
       \/ /\ dbs' \in OpenDBSettled(TheBook)
          /\ UNCHANGED <<dataVars, indexingStates, run, aborted,
                         uiIsIndexing, uiIndexed, abortRef>>

Next ==
    \/ \E r \in Runs : PerformIndexing(r)
    \/ CancelIndexing
    \/ \E r \in Runs : IndexBookEnter(r)
    \/ \E r \in Runs : SectionDone(r)
    \/ \E r \in Runs : EmbedBatchDone(r)
    \/ \E r \in Runs : EmbedManyDone(r)
    \/ \E r \in Runs : SaveChunksDone(r)
    \/ \E r \in Runs : SaveBM25Done(r)
    \/ \E r \in Runs : SaveMetaDone(r)

Spec == Init /\ [][Next]_vars

\* the same with the reset button of the assistant panel
NextReset ==
    \/ Next
    \/ ResetIndexStart
    \/ ResetIndexCleared

SpecReset == Init /\ [][NextReset]_vars

\* ------------------------------------------------------------------------
\* ragService: getChapterTitle
\* ------------------------------------------------------------------------
\* `Section ${sectionIndex + 1}`
SectionTitle(sectionIndex) == "Section " \o ToString(sectionIndex + 1)

\* the first entry with id <= sectionIndex, scanning from the front
RECURSIVE TitleScanForward(_, _, _)
TitleScanForward(toc, sectionIndex, i) ==
    IF i > Len(toc)
    THEN IF toc[1].label # "" THEN toc[1].label ELSE SectionTitle(sectionIndex)
    ELSE IF toc[i].id <= sectionIndex THEN toc[i].label
    ELSE TitleScanForward(toc, sectionIndex, i + 1)

getChapterTitleFirstMatch(toc, sectionIndex) ==
    IF Len(toc) = 0 THEN SectionTitle(sectionIndex)
    ELSE TitleScanForward(toc, sectionIndex, 1)

\* for (let i = toc.length - 1; i >= 0; i--) ...; then toc[0]?.label || `Section ...`
RECURSIVE TitleScan(_, _, _)
TitleScan(toc, sectionIndex, i) ==
    IF i = 0
    THEN IF toc[1].label # "" THEN toc[1].label ELSE SectionTitle(sectionIndex)
    ELSE IF toc[i].id <= sectionIndex THEN toc[i].label
    ELSE TitleScan(toc, sectionIndex, i - 1)

getChapterTitle(toc, sectionIndex) ==
    IF Len(toc) = 0 THEN SectionTitle(sectionIndex)
    ELSE TitleScan(toc, sectionIndex, Len(toc))

\* TOC entries: a section id and a label, which may be empty
TocEntries == [id : 0 .. NumSections, label : {"", "Ch1", "Ch2"}]
Tocs == UNION {[1 .. n -> TocEntries] : n \in 0 .. MaxTocLen}

\* indexBook asks for the title of section i
GetChapterTitleCall ==
    /\ ~titleCall.called
    /\ \E toc \in Tocs, i \in Sections :
         titleCall' = [called |-> TRUE, toc |-> toc, sectionIndex |-> i,
                       result |-> getChapterTitle(toc, i)]
    /\ UNCHANGED <<storeVars, indexingStates, run, aborted, uiVars, search, clear, convVars,
                   storeOp, chatVars, embedCall, idb, requests>>

NextTitle == GetChapterTitleCall

SpecTitle == Init /\ [][NextTitle]_vars

\* ------------------------------------------------------------------------
\* ragService.indexBook: the embedding requests of the OpenAI-compatible path
\* ------------------------------------------------------------------------
\* allChunks.map((c) => c.text): the text of chunk k is written k
TextsOf(n) == [k \in 1 .. n |-> k]

\* what the provider computes for a text
ProviderEmbedding(text) == [present |-> TRUE, vec |-> <<text, 1>>]

\* texts.slice(i, i + BATCH_SIZE)
BatchAt(texts, i) == SubSeq(texts, i + 1, Min(i + BATCH_SIZE, Len(texts)))

\* the orders in which the items of a response of m items can arrive
ItemOrders(m) ==
    {f \in [1 .. m -> 1 .. m] : \A a, b \in 1 .. m : a # b => f[a] # f[b]}

\* data.data of the response to a batch: one { embedding, index } per input,
\* index counting from 0, in the order f
ResponseTo(batch, f) ==
    [k \in DOMAIN batch |-> [index |-> f[k] - 1, embedding |-> ProviderEmbedding(batch[f[k]])]]

BatchEmbeddingsAsReceived(data) == [k \in DOMAIN data |-> data[k].embedding]

\* data.data.sort((a, b) => a.index - b.index).map((d) => d.embedding)
BatchEmbeddings(data) ==
    Values(SortKeyed([k \in DOMAIN data |-> [k |-> data[k].index, v |-> data[k].embedding]]))

\* for (let i = 0; i < allChunks.length; i++) allChunks[i].embedding = embeddings[i]
AssignedEmbeddings(texts, embeddings) ==
    [k \in DOMAIN texts |-> IF k <= Len(embeddings) THEN embeddings[k] ELSE NoEmbedding]

EmbedFrame ==
    UNCHANGED <<storeVars, indexingStates, run, aborted, uiVars, search, clear, convVars,
                storeOp, chatVars, titleCall, idb, requests>>

\* indexBook reaches the batch loop with n chunks, n > 0
EmbedLoopStart ==
    /\ embedCall.pc = "idle"
    /\ \E n \in 1 .. MaxTexts :
         embedCall' = [NoEmbedCall EXCEPT !.pc = "batch", !.texts = TextsOf(n)]
    /\ EmbedFrame

\* the request of the batch at i settled: its items arrive in any order and
\* are pushed after the sort, or it failed and the catch drops what was received
EmbedLoopBatch ==
    /\ embedCall.pc = "batch"
    /\ LET c == embedCall
           batch == BatchAt(c.texts, c.i)
       IN  \/ \E f \in ItemOrders(Len(batch)) :
                LET data == ResponseTo(batch, f)
                    embeddings == c.embeddings \o BatchEmbeddings(data)
                    next == c.i + BATCH_SIZE
                    d == [c EXCEPT !.sent = Append(@, batch), !.response = data,
                                   !.embeddings = embeddings, !.i = next]
                IN  embedCall' =
                      IF next < Len(c.texts) THEN d
                      ELSE [d EXCEPT !.pc = "done",
                                     !.assigned = AssignedEmbeddings(c.texts, embeddings)]
           \/ embedCall' = [c EXCEPT !.pc = "failed", !.sent = Append(@, batch),
                                     !.response = <<>>, !.embeddings = <<>>]
    /\ EmbedFrame

NextEmbed ==
    \/ EmbedLoopStart
    \/ EmbedLoopBatch

SpecEmbed == Init /\ [][NextEmbed]_vars

\* ------------------------------------------------------------------------
\* ragService.clearBookIndex
\* ------------------------------------------------------------------------
indexingVars == <<indexingStates, run, aborted, uiIsIndexing, uiIndexed, abortRef, reset>>

NoRunInFlight == \A q \in Runs : run[q].pc = "idle" \/ Settled(run[q])

\* clearBookIndex(bookHash) up to the transaction of aiStore.clearBook
ClearBookIndexCall ==
    /\ clear.pc = "idle"
    /\ clear.calls < MaxClears
    /\ clear' = [clear EXCEPT !.pc = "pending", !.calls = @ + 1]
    /\ UNCHANGED <<storeVars, indexingVars, search, convVars, storeOp, chatVars,
                   titleCall, embedCall, idb, requests>>

\* the database of the book deleted as a whole, conversations included
ClearBookDoneDeletesDatabase ==
    /\ clear.pc = "pending"
    /\ \/ /\ clear' = [clear EXCEPT !.pc = "idle", !.last = "ok"]
          /\ db' = [db EXCEPT ![TheBook] = ClearBookDb(@)]
          /\ chunkCache' = [chunkCache EXCEPT ![TheBook] = NoChunkCache]
          /\ indexCache' = [indexCache EXCEPT ![TheBook] = NoIndexCache]
          /\ metaCache' = [metaCache EXCEPT ![TheBook] = NoMetaCache]
          /\ convStore' = [convStore EXCEPT ![TheBook] = {}]
          /\ msgStore' = [msgStore EXCEPT ![TheBook] = {}]
          /\ conversationCache' = [conversationCache EXCEPT ![TheBook] = NoCache]
          /\ dbs' = OpenDB(TheBook)
          /\ indexingStates' = [indexingStates EXCEPT ![TheBook] = NoRun]
       \/ /\ clear' = [clear EXCEPT !.pc = "idle", !.last = "failed"]
          /\ dbs' \in OpenDBSettled(TheBook)
          /\ UNCHANGED <<dataVars, indexingStates, convVars>>
    /\ UNCHANGED <<run, aborted, uiIsIndexing, uiIndexed, abortRef, reset, search,
                   storeOp, chatVars, titleCall, embedCall, idb, requests>>

\* the transaction completed: the caches of the book are dropped and the
\* IndexingState entry deleted; or it failed and clearBookIndex rejects
ClearBookDone ==
    /\ clear.pc = "pending"
    /\ \/ /\ clear' = [clear EXCEPT !.pc = "idle", !.last = "ok"]
          /\ db' = [db EXCEPT ![TheBook] = ClearBookDb(@)]
          /\ chunkCache' = [chunkCache EXCEPT ![TheBook] = NoChunkCache]
          /\ indexCache' = [indexCache EXCEPT ![TheBook] = NoIndexCache]
          /\ metaCache' = [metaCache EXCEPT ![TheBook] = NoMetaCache]
          /\ dbs' = OpenDB(TheBook)
          /\ indexingStates' = [indexingStates EXCEPT ![TheBook] = NoRun]
       \/ /\ clear' = [clear EXCEPT !.pc = "idle", !.last = "failed"]
          /\ dbs' \in OpenDBSettled(TheBook)
          /\ UNCHANGED <<dataVars, indexingStates>>
    /\ UNCHANGED <<run, aborted, uiIsIndexing, uiIndexed, abortRef, reset, search,
                   convVars, storeOp, chatVars, titleCall, embedCall, idb, requests>>

\* the first indexBook call of the panel: here it is the only one
PerformIndexingOnce(r) == r = RunOrder[1] /\ PerformIndexing(r)

NextClear ==
    \/ \E r \in Runs : PerformIndexingOnce(r)
    \/ CancelIndexing
    \/ \E r \in Runs : IndexBookEnter(r)
    \/ \E r \in Runs : SectionDone(r)
    \/ \E r \in Runs : EmbedBatchDone(r)
    \/ \E r \in Runs : EmbedManyDone(r)
    \/ \E r \in Runs : SaveChunksDone(r)
    \/ \E r \in Runs : SaveBM25Done(r)
    \/ \E r \in Runs : SaveMetaDone(r)
    \/ ClearBookIndexCall
    \/ ClearBookDone

SpecClear == Init /\ [][NextClear]_vars



\* ------------------------------------------------------------------------
\* Retrieval over an indexed book
\* ------------------------------------------------------------------------
\* where the chunks of the indexed book sit: section and page of each position
Locations == <<[sectionIndex |-> 0, pageNumber |-> 0],
               [sectionIndex |-> 0, pageNumber |-> 1],
               [sectionIndex |-> 1, pageNumber |-> 1]>>
ChunkEmbeddings == {NoEmbedding,
                    [present |-> TRUE, vec |-> <<3, 4>>],
                    [present |-> TRUE, vec |-> <<-1, 0>>]}
\* texts: the first 100 characters (key) and the words; two texts share a key
ChunkTexts == {[key |-> "ka", terms |-> {"a", "b"}],
               [key |-> "kb", terms |-> {"b"}],
               [key |-> "ka", terms |-> {"c"}],
               [key |-> "kc", terms |-> {"b", "c"}]}
QueryEmbeddings == {NoEmbedding,
                    [present |-> TRUE, vec |-> <<1, 0>>],
                    [present |-> TRUE, vec |-> <<0, -1>>],
                    [present |-> TRUE, vec |-> <<0, 0>>]}
Queries == {{"b"}, {"a", "b"}, {"z"}, Unparsable}
TopKs == 0 .. MaxK
MaxPages == {NoPage} \cup (0 .. MaxPageBound)

OrdinalAt(k) ==
    Cardinality({j \in 1 .. (k - 1) : Locations[j].sectionIndex = Locations[k].sectionIndex})

IndexedBooks ==
    {[k \in DOMAIN Locations |->
        [id |-> <<Locations[k].sectionIndex, OrdinalAt(k)>>, bookHash |-> TheBook,
         sectionIndex |-> Locations[k].sectionIndex,
         pageNumber |-> Locations[k].pageNumber,
         text |-> t[k], embedding |-> e[k]]] :
        t \in [DOMAIN Locations -> ChunkTexts], e \in [DOMAIN Locations -> ChunkEmbeddings]}

\* loadBM25Index: the cached index, else the stored record when there is one
\* and lunr.Index.load takes its serialization, else null
LoadBM25Index(b) ==
    IF indexCache[b].has THEN indexCache[b]
    ELSE IF db[b].bm25.present /\ db[b].bm25.loadable
         THEN [has |-> TRUE, docs |-> db[b].bm25.docs]
         ELSE NoIndexCache

\* indexCache after loadBM25Index: a loaded index is cached, null is not
IndexCacheAfterLoad(b) ==
    [indexCache EXCEPT ![b] = [has |-> LoadBM25Index(b).has, docs |-> LoadBM25Index(b).docs]]

\* the store after an indexBook run that saved `chunks` resolved
InitIndexed(chunks) ==
    /\ db = [b \in Books |->
               IF b = TheBook
               THEN [chunks |-> Range(chunks),
                     meta |-> [present |-> TRUE, totalChunks |-> Len(chunks)],
                     bm25 |-> [present |-> TRUE, docs |-> Docs(chunks),
                               loadable |-> TRUE]]
               ELSE [chunks |-> {}, meta |-> NoMeta, bm25 |-> NoIndex]]
    /\ chunkCache = [b \in Books |->
                       IF b = TheBook THEN [has |-> TRUE, chunks |-> chunks]
                       ELSE NoChunkCache]
    /\ indexCache = [b \in Books |->
                       IF b = TheBook THEN [has |-> TRUE, docs |-> Docs(chunks)]
                       ELSE NoIndexCache]
    /\ metaCache = [b \in Books |->
                      IF b = TheBook
                      THEN [has |-> TRUE,
                            meta |-> [present |-> TRUE, totalChunks |-> Len(chunks)]]
                      ELSE NoMetaCache]
    /\ dbs = {TheBook}
    /\ indexingStates = [b \in Books |-> NoRun]
    /\ run = [r \in Runs |-> NewRun]
    /\ aborted = [r \in Runs |-> FALSE]
    /\ uiIsIndexing = FALSE
    /\ uiIndexed = TRUE
    /\ abortRef = NoRun
    /\ reset = [pc |-> "idle", mayIndex |-> FALSE]
    /\ search = NoSearch
    /\ clear = NoClear
    /\ InitConversations
    /\ InitAdapter
    /\ titleCall = NoTitleCall
    /\ embedCall = NoEmbedCall
    /\ idb = NoHandles
    /\ requests = NoRequests

InitSearch == \E chunks \in IndexedBooks : InitIndexed(chunks)

LexicalFrame ==
    UNCHANGED <<db, chunkCache, metaCache, indexingStates, run, aborted,
                uiIsIndexing, uiIndexed, abortRef, reset, clear, convVars, storeOp,
                chatVars, titleCall, embedCall, idb, requests>>

SearchFrame == UNCHANGED <<indexCache, dbs>> /\ LexicalFrame

\* aiStore.vectorSearch(bookHash, queryEmbedding, topK, maxPage)
DoVectorSearch ==
    /\ search.op = "none"
    /\ \E qe \in QueryEmbeddings \ {NoEmbedding}, k \in TopKs, mp \in MaxPages :
         search' = [op |-> "vector", topK |-> k, maxPage |-> mp, pageNumber |-> -1,
                    hasEmbedding |-> TRUE,
                    result |-> VectorSearch(GetChunks(TheBook), qe.vec, k, mp),
                    vector |-> <<>>, bm25 |-> <<>>,
                    query |-> {}, queryEmbedding |-> qe]
    /\ SearchFrame

\* aiStore.bm25Search(bookHash, query, topK, maxPage)
DoBm25Search ==
    /\ search.op = "none"
    /\ \E q \in Queries, k \in TopKs, mp \in MaxPages :
         search' = [op |-> "bm25", topK |-> k, maxPage |-> mp, pageNumber |-> -1,
                    hasEmbedding |-> FALSE,
                    result |-> Bm25Search(LoadBM25Index(TheBook), GetChunks(TheBook),
                                          q, k, mp),
                    vector |-> <<>>, bm25 |-> <<>>,
                    query |-> q, queryEmbedding |-> NoEmbedding]
    /\ indexCache' = IndexCacheAfterLoad(TheBook)
    /\ dbs' = OpenDBUnless(indexCache[TheBook].has, TheBook)
    /\ LexicalFrame

\* aiStore.hybridSearch(bookHash, queryEmbedding, query, topK, maxPage); the
\* two normalized lists are kept next to the result
DoHybridSearch ==
    /\ search.op = "none"
    /\ \E qe \in QueryEmbeddings, q \in Queries, k \in TopKs, mp \in MaxPages :
         LET index == LoadBM25Index(TheBook)
             chunks == GetChunks(TheBook)
         IN  search' = [op |-> "hybrid", topK |-> k, maxPage |-> mp, pageNumber |-> -1,
                        hasEmbedding |-> qe.present,
                        result |-> HybridSearch(index, chunks, qe, q, k, mp),
                        vector |-> Normalize(HybridVector(index, chunks, qe, q, k, mp),
                                             VectorWeight),
                        bm25 |-> Normalize(HybridBm25(index, chunks, qe, q, k, mp),
                                           Bm25Weight),
                        query |-> q, queryEmbedding |-> qe]
    /\ indexCache' = IndexCacheAfterLoad(TheBook)
    /\ dbs' = OpenDBUnless(indexCache[TheBook].has, TheBook)
    /\ LexicalFrame

\* ragService.getPageContextChunks(bookHash, pageNumber)
DoPageContext ==
    /\ search.op = "none"
    /\ \E pg \in 0 .. MaxPageBound :
         search' = [op |-> "page", topK |-> 0, maxPage |-> NoPage, pageNumber |-> pg,
                    hasEmbedding |-> FALSE,
                    result |-> GetPageContextChunks(GetChunks(TheBook), pg),
                    vector |-> <<>>, bm25 |-> <<>>,
                    query |-> {}, queryEmbedding |-> NoEmbedding]
    /\ SearchFrame

\* ragService.getChapterContextChunks(bookHash, pageNumber); the page after
\* the last one has no chunk
DoChapterContext ==
    /\ search.op = "none"
    /\ \E pg \in 0 .. (MaxPageBound + 1) :
         search' = [op |-> "chapter", topK |-> 0, maxPage |-> NoPage, pageNumber |-> pg,
                    hasEmbedding |-> FALSE,
                    result |-> GetChapterContextChunks(GetChunks(TheBook), pg),
                    vector |-> <<>>, bm25 |-> <<>>,
                    query |-> {}, queryEmbedding |-> NoEmbedding]
    /\ SearchFrame

NextSearch ==
    \/ DoVectorSearch
    \/ DoBm25Search
    \/ DoHybridSearch
    \/ DoPageContext
    \/ DoChapterContext

SpecSearch == InitSearch /\ [][NextSearch]_vars

\* ------------------------------------------------------------------------
\* Retrieval when the BM25 index is cached, only stored, missing or unloadable
\* ------------------------------------------------------------------------
\* cached: indexCache holds it; stored: only the record; missing: no record
\* (the run stopped before saveBM25Index); unloadable: lunr.Index.load throws
IndexKinds == {"cached", "stored", "missing", "unloadable"}

\* the books searched here: the last chunk is fixed, the second is embedded
LexicalBooks ==
    {chunks \in IndexedBooks :
        /\ chunks[3].text = [key |-> "kb", terms |-> {"b"}]
        /\ chunks[3].embedding = [present |-> TRUE, vec |-> <<-1, 0>>]
        /\ chunks[2].embedding = [present |-> TRUE, vec |-> <<3, 4>>]}

StoredIndex(chunks, kind) ==
    IF kind = "missing" THEN NoIndex
    ELSE [present |-> TRUE, docs |-> Docs(chunks), loadable |-> kind # "unloadable"]

StoredMeta(chunks, kind) ==
    IF kind = "missing" THEN NoMeta
    ELSE [present |-> TRUE, totalChunks |-> Len(chunks)]

InitLexical ==
    \E chunks \in LexicalBooks, kind \in IndexKinds :
        /\ db = [b \in Books |->
                   IF b = TheBook
                   THEN [chunks |-> Range(chunks),
                         meta |-> StoredMeta(chunks, kind),
                         bm25 |-> StoredIndex(chunks, kind)]
                   ELSE [chunks |-> {}, meta |-> NoMeta, bm25 |-> NoIndex]]
        /\ chunkCache = [b \in Books |->
                           IF b = TheBook THEN [has |-> TRUE, chunks |-> chunks]
                           ELSE NoChunkCache]
        /\ indexCache = [b \in Books |->
                           IF b = TheBook /\ kind = "cached"
                           THEN [has |-> TRUE, docs |-> Docs(chunks)]
                           ELSE NoIndexCache]
        /\ metaCache = [b \in Books |-> NoMetaCache]
        /\ dbs = {TheBook}
        /\ indexingStates = [b \in Books |-> NoRun]
        /\ run = [r \in Runs |-> NewRun]
        /\ aborted = [r \in Runs |-> FALSE]
        /\ uiIsIndexing = FALSE
        /\ uiIndexed = (kind # "missing")
        /\ abortRef = NoRun
        /\ reset = [pc |-> "idle", mayIndex |-> FALSE]
        /\ search = NoSearch
        /\ clear = NoClear
        /\ InitConversations
        /\ InitAdapter
        /\ titleCall = NoTitleCall
        /\ embedCall = NoEmbedCall
        /\ idb = NoHandles
        /\ requests = NoRequests

SpecLexical == InitLexical /\ [][NextSearch]_vars

\* ------------------------------------------------------------------------
\* TauriChatAdapter: a chat request
\* ------------------------------------------------------------------------
\* the indexed book a chat runs against: page 0 holds one chunk, page 1 two,
\* the last of them without an embedding
ChatBooks ==
    {chunks \in IndexedBooks :
        /\ chunks[1].text = [key |-> "ka", terms |-> {"a", "b"}]
        /\ chunks[2].text = [key |-> "kb", terms |-> {"b"}]
        /\ chunks[3].text = [key |-> "kc", terms |-> {"b", "c"}]
        /\ chunks[1].embedding = [present |-> TRUE, vec |-> <<3, 4>>]
        /\ chunks[2].embedding = [present |-> TRUE, vec |-> <<-1, 0>>]
        /\ chunks[3].embedding = NoEmbedding}
\* the text of the last user message
ChatQueries == {{"b"}, {"z"}}
\* what embedding the query gives: none when the provider fails
ChatQueryEmbeddings == {NoEmbedding, [present |-> TRUE, vec |-> <<1, 0>>]}

InitChat == \E chunks \in ChatBooks : InitIndexed(chunks)

ChatFrame ==
    UNCHANGED <<db, chunkCache, indexCache, indexingVars, search, clear, convVars,
                storeOp, titleCall, embedCall, idb, requests>>

\* for (const c of pageChunks) push; for (const c of searchChunks) push unless seen
MergeSourcesKeepsAll(pageChunks, searchChunks) == pageChunks \o searchChunks

RECURSIVE PushUnseen(_, _)
PushUnseen(chunks, rest) ==
    IF rest = <<>> THEN chunks
    ELSE PushUnseen(IF Head(rest).id \in {chunks[k].id : k \in DOMAIN chunks}
                    THEN chunks ELSE Append(chunks, Head(rest)),
                    Tail(rest))

MergeSources(pageChunks, searchChunks) == PushUnseen(pageChunks, searchChunks)

\* the options a run works with after its first statement
RunOptionsLive == optionsRef
RunOptions == chat.options

\* settings.maxContextChunks || 5
TopKOf(settings) ==
    IF settings.maxContextChunks = 0 THEN DefaultContextChunks
    ELSE settings.maxContextChunks

\* the page bound left out of the hybridSearch call
MaxPageOfUnbounded(o) == NoPage

\* settings.spoilerProtection ? currentPage : undefined
MaxPageOf(o) == IF o.settings.spoilerProtection THEN o.currentPage ELSE NoPage

\* buildSystemPrompt(bookTitle, authorName, chunks, currentPage)
PromptOf(o, chunks) ==
    [built |-> TRUE, bookTitle |-> o.bookTitle, currentPage |-> o.currentPage,
     chunks |-> chunks]

\* run(): getOptions(), getAIProvider(settings), the query, the call of
\* isBookIndexed(bookHash)
ChatStart ==
    /\ chat.pc \in {"idle", "done", "threw"}
    /\ \E q \in ChatQueries :
         LET options == optionsRef IN
         chat' = IF options.settings.valid
                 THEN [NoChat EXCEPT !.pc = "isBookIndexed", !.options = options,
                                     !.query = q, !.asked = options.bookHash]
                 ELSE [NoChat EXCEPT !.pc = "threw", !.options = options, !.query = q,
                                     !.ended = "provider"]
    /\ UNCHANGED <<lastSources, lastWrite, optionsRef, metaCache, dbs>>
    /\ ChatFrame

\* await isBookIndexed(bookHash) rejects
ChatIsBookIndexedRejected ==
    /\ chat.pc = "isBookIndexed"
    /\ chat' = [chat EXCEPT !.pc = "threw", !.ended = "isBookIndexed"]
    /\ UNCHANGED <<lastSources, lastWrite, optionsRef, metaCache, dbs>>
    /\ ChatFrame

\* isBookIndexed gives true: getPageContextChunks and hybridSearch are called
ChatBookIndexed ==
    /\ chat.pc = "isBookIndexed"
    /\ IsIndexed(chat.asked)
    /\ metaCache' = [metaCache EXCEPT ![chat.asked] = MetaCacheAfterGet(chat.asked)]
    /\ dbs' = OpenDBUnless(metaCache[chat.asked].has, chat.asked)
    /\ chat' = [chat EXCEPT !.pc = "retrieval", !.indexed = TRUE,
                            !.retrieval = [bookHash |-> RunOptions.bookHash,
                                           pageNumber |-> RunOptions.currentPage,
                                           topK |-> TopKOf(RunOptions.settings),
                                           maxPage |-> MaxPageOf(RunOptions)]]
    /\ UNCHANGED <<lastSources, lastWrite, optionsRef>>
    /\ ChatFrame

\* isBookIndexed gives false, kept apart: the slot is left as it was
ChatBookNotIndexedKeepsSources ==
    /\ chat.pc = "isBookIndexed"
    /\ ~IsIndexed(chat.asked)
    /\ metaCache' = [metaCache EXCEPT ![chat.asked] = MetaCacheAfterGet(chat.asked)]
    /\ dbs' = OpenDBUnless(metaCache[chat.asked].has, chat.asked)
    /\ chat' = [chat EXCEPT !.pc = "stream", !.prompt = PromptOf(RunOptions, <<>>)]
    /\ UNCHANGED <<lastSources, lastWrite, optionsRef>>
    /\ ChatFrame

\* isBookIndexed gives false: lastSources = []; the prompt is built
ChatBookNotIndexed ==
    /\ chat.pc = "isBookIndexed"
    /\ ~IsIndexed(chat.asked)
    /\ metaCache' = [metaCache EXCEPT ![chat.asked] = MetaCacheAfterGet(chat.asked)]
    /\ dbs' = OpenDBUnless(metaCache[chat.asked].has, chat.asked)
    /\ lastSources' = <<>>
    /\ lastWrite' = "notIndexed"
    /\ chat' = [chat EXCEPT !.pc = "stream", !.prompt = PromptOf(RunOptions, <<>>)]
    /\ UNCHANGED optionsRef
    /\ ChatFrame

\* Promise.all resolves: merge, lastSources = chunks; the prompt is built
ChatRetrieved ==
    /\ chat.pc = "retrieval"
    /\ \E qe \in ChatQueryEmbeddings :
         LET r == chat.retrieval
             all == GetChunks(r.bookHash)
             pageChunks == GetPageContextChunks(all, r.pageNumber)
             searchChunks == HybridSearch(LoadBM25Index(r.bookHash), all, qe, chat.query,
                                          r.topK, r.maxPage)
             chunks == MergeSources(pageChunks, searchChunks)
         IN  /\ lastSources' = chunks
             /\ chat' = [chat EXCEPT !.pc = "stream", !.retrieved = "ok",
                                     !.pageChunks = pageChunks,
                                     !.searchChunks = searchChunks,
                                     !.chunks = chunks,
                                     !.prompt = PromptOf(RunOptions, chunks)]
    /\ lastWrite' = "retrieval"
    /\ UNCHANGED <<optionsRef, metaCache, dbs>>
    /\ ChatFrame

\* Promise.all rejects: catch, lastSources = []; the prompt is built
ChatRetrievalFailed ==
    /\ chat.pc = "retrieval"
    /\ lastSources' = <<>>
    /\ lastWrite' = "ragFailed"
    /\ chat' = [chat EXCEPT !.pc = "stream", !.retrieved = "threw",
                            !.prompt = PromptOf(RunOptions, <<>>)]
    /\ UNCHANGED <<optionsRef, metaCache, dbs>>
    /\ ChatFrame

\* the stream ends: complete, aborted (the catch swallows it) or failed (the
\* catch throws it again)
ChatStreamDone ==
    /\ chat.pc = "stream"
    /\ \E outcome \in {"complete", "aborted", "stream"} :
         chat' = [chat EXCEPT !.pc = IF outcome = "stream" THEN "threw" ELSE "done",
                              !.ended = outcome]
    /\ UNCHANGED <<lastSources, lastWrite, optionsRef, metaCache, dbs>>
    /\ ChatFrame

\* AIAssistantChat renders with new props: optionsRef.current = { ... }
SetOptions ==
    /\ \E o \in Options \ {optionsRef} : optionsRef' = o
    /\ UNCHANGED <<lastSources, lastWrite, chat, metaCache, dbs>>
    /\ ChatFrame

\* handleClear: clearLastSources()
ClearLastSources ==
    /\ lastSources' = <<>>
    /\ lastWrite' = "clear"
    /\ UNCHANGED <<optionsRef, chat, metaCache, dbs>>
    /\ ChatFrame

NextChat ==
    \/ ChatStart
    \/ ChatIsBookIndexedRejected
    \/ ChatBookIndexed
    \/ ChatBookNotIndexed
    \/ ChatRetrieved
    \/ ChatRetrievalFailed
    \/ ChatStreamDone
    \/ SetOptions
    \/ ClearLastSources

SpecChat == InitChat /\ [][NextChat]_vars

\* ------------------------------------------------------------------------
\* TauriChatAdapter: runs that overlap
\* ------------------------------------------------------------------------
RequestFrame ==
    UNCHANGED <<db, chunkCache, indexCache, indexingVars, search, clear, convVars,
                storeOp, titleCall, embedCall, idb, optionsRef, chat>>

\* how many runs have started
Started == Cardinality({i \in Requests : requests[i].seq > 0})

\* run(): getOptions(), the query, the call of isBookIndexed(bookHash); a run
\* starts whether or not an earlier one has finished
RequestStart ==
    /\ \E i \in Requests, q \in ChatQueries :
         /\ requests[i].pc = "idle"
         /\ \A j \in Requests : j < i => requests[j].pc # "idle"
         /\ optionsRef.settings.valid
         /\ requests' = [requests EXCEPT ![i] = [NoRequest EXCEPT !.pc = "isBookIndexed",
                                                                  !.seq = Started + 1,
                                                                  !.options = optionsRef,
                                                                  !.query = q]]
    /\ UNCHANGED <<lastSources, lastWrite, metaCache, dbs>>
    /\ RequestFrame

\* await isBookIndexed(bookHash) resolves: the retrieval calls are made, or
\* lastSources = [] for a book without index
RequestBookIndexed ==
    /\ \E i \in Requests :
         LET b == requests[i].options.bookHash IN
         /\ requests[i].pc = "isBookIndexed"
         /\ metaCache' = [metaCache EXCEPT ![b] = MetaCacheAfterGet(b)]
         /\ dbs' = OpenDBUnless(metaCache[b].has, b)
         /\ IF IsIndexed(b)
            THEN /\ requests' = [requests EXCEPT ![i].pc = "retrieval"]
                 /\ UNCHANGED <<lastSources, lastWrite>>
            ELSE /\ requests' = [requests EXCEPT ![i].pc = "stream"]
                 /\ lastSources' = <<>>
                 /\ lastWrite' = "notIndexed"
    /\ RequestFrame

\* the Promise.all of a run resolves: merge, lastSources = chunks
RequestRetrieved ==
    /\ \E i \in Requests, qe \in ChatQueryEmbeddings :
         LET o == requests[i].options
             all == GetChunks(o.bookHash)
             pageChunks == GetPageContextChunks(all, o.currentPage)
             searchChunks == HybridSearch(LoadBM25Index(o.bookHash), all, qe,
                                          requests[i].query, TopKOf(o.settings),
                                          MaxPageOf(o))
             chunks == MergeSources(pageChunks, searchChunks)
         IN  /\ requests[i].pc = "retrieval"
             /\ lastSources' = chunks
             /\ requests' = [requests EXCEPT ![i].pc = "stream", ![i].sources = chunks]
    /\ lastWrite' = "retrieval"
    /\ UNCHANGED <<metaCache, dbs>>
    /\ RequestFrame

\* the Promise.all of a run rejects: catch, lastSources = []
RequestRetrievalFailed ==
    /\ \E i \in Requests :
         /\ requests[i].pc = "retrieval"
         /\ requests' = [requests EXCEPT ![i].pc = "stream"]
    /\ lastSources' = <<>>
    /\ lastWrite' = "ragFailed"
    /\ UNCHANGED <<metaCache, dbs>>
    /\ RequestFrame

NextOverlap ==
    \/ RequestStart
    \/ RequestBookIndexed
    \/ RequestRetrieved
    \/ RequestRetrievalFailed

SpecOverlap == InitChat /\ [][NextOverlap]_vars

\* ------------------------------------------------------------------------
\* Properties of indexBook
\* ------------------------------------------------------------------------
PersistSequence == <<"chunks", "bm25", "meta">>
IsPrefix(s, t) == Len(s) <= Len(t) /\ \A k \in 1 .. Len(s) : s[k] = t[k]
ActivePcs == {"section", "embedBatch", "embedMany", "saveChunks", "saveBM25", "saveMeta"}
EmbedPcs == {"embedBatch", "embedMany"}
IsAbortError(msg) == msg \in {AbortedMsg, AbortErrorName}
LastPhase(l) == IF l.events = <<>> THEN "none" ELSE l.events[Len(l.events)].phase

\* C1: in every indexBook run the completed store writes are a prefix of
\* saveChunks, saveBM25Index, saveMeta; a write is awaited only when the ones
\* before it completed, and the meta record is written only by a run that
\* already wrote its chunks and its BM25 index.
C1_PersistOrder ==
    \A r \in Runs :
        /\ IsPrefix(run[r].writes, PersistSequence)
        /\ run[r].pc = "saveChunks" => run[r].writes = <<>>
        /\ run[r].pc = "saveBM25" => run[r].writes = <<"chunks">>
        /\ run[r].pc = "saveMeta" => run[r].writes = <<"chunks", "bm25">>
        /\ (\E k \in DOMAIN run[r].writes : run[r].writes[k] = "meta")
              => run[r].writes = PersistSequence

C1_Witness ==
    \E r \in Runs : run[r].writes = PersistSequence /\ db[TheBook].meta.present

\* C2 (as claimed): a run that passed the guard and rejected has written no
\* meta record, and its IndexingState has status 'error' with the message.
C2_RejectedWroteNoMeta ==
    \A r \in Runs :
        run[r].pc = "rejected" =>
            /\ \A k \in DOMAIN run[r].writes : run[r].writes[k] # "meta"
            /\ run[r].state.status = "error"
            /\ run[r].state.error # ""

\* C3 (as claimed, for the runs that produced chunks): when an indexBook run
\* resolves, getMeta is non-null and its totalChunks is the number of chunks
\* in the book's chunks store.
C3_TotalChunksIsPersistedCount ==
    [][\A r \in Runs :
          (run[r].pc \in ActivePcs /\ run'[r].pc = "resolved"
              /\ run'[r].state.totalChunks > 0)
          => /\ GetMeta(TheBook)'.present
             /\ GetMeta(TheBook)'.totalChunks = Cardinality(db'[TheBook].chunks)]_vars

\* C4: an indexBook call that finds the book indexed resolves at once: no
\* store write, no progress event, no IndexingState created or changed.
C4_Idempotent ==
    [][\A r \in Runs :
          (run[r].pc = "called" /\ IsIndexed(TheBook) /\ run'[r] # run[r])
          => /\ run'[r].pc = "resolved"
             /\ db' = db
             /\ run'[r].events = <<>>
             /\ run'[r].writes = <<>>
             /\ indexingStates' = indexingStates
             /\ \A q \in Runs : run'[q].state = run[q].state]_vars

C4_Witness ==
    \E r \in Runs :
        /\ run[r].pc = "resolved"
        /\ ~run[r].state.registered
        /\ IsIndexed(TheBook)

\* C5: a run whose token is aborted while it awaits an embedding request
\* rejects with the abort error at its next step, having written nothing; the
\* book is indexed afterwards only if another run wrote the meta record; the
\* guard of a later call looks at the meta record alone, so a call with a
\* fresh token registers a new state, and a run that resolves with chunks
\* has done the three writes and leaves the book indexed.
C5_AbortInEmbedding ==
    /\ [](\A r \in Runs :
            (run[r].pc = "rejected" /\ IsAbortError(run[r].state.error)
                /\ LastPhase(run[r]) = "embedding")
            => /\ run[r].writes = <<>>
               /\ IsIndexed(TheBook) =>
                     \E q \in Runs \ {r} : run[q].writes = PersistSequence)
    /\ [][\A r \in Runs :
            /\ (aborted[r] /\ run[r].pc \in EmbedPcs /\ run'[r] # run[r])
               => /\ run'[r].pc = "rejected"
                  /\ IsAbortError(run'[r].state.error)
                  /\ run'[r].writes = <<>>
            /\ (run[r].pc = "called" /\ ~IsIndexed(TheBook) /\ ~aborted[r]
                   /\ run'[r] # run[r])
               => /\ run'[r].state.registered
                  /\ indexingStates'[TheBook] = r
                  /\ run'[r].events # <<>>
            /\ (run[r].pc \in ActivePcs /\ run'[r].pc = "resolved"
                   /\ run'[r].state.totalChunks > 0)
               => /\ run'[r].writes = PersistSequence
                  /\ IsIndexed(TheBook)']_vars

C5_Witness ==
    \E r, q \in Runs :
        /\ r # q
        /\ run[r].pc = "rejected"
        /\ IsAbortError(run[r].state.error)
        /\ LastPhase(run[r]) = "embedding"
        /\ indexingStates[TheBook] = q
        /\ run[q].pc = "resolved"
        /\ run[q].state.status = "complete"
        /\ run[q].writes = PersistSequence
        /\ IsIndexed(TheBook)

\* C6 (as claimed): a run whose token is already aborted when saveChunks or
\* saveBM25Index completes does not start the next write but rejects as
\* aborted.
C6_AbortBeforeEachWrite ==
    [][\A r \in Runs :
          (aborted[r] /\ run[r].pc \in {"saveChunks", "saveBM25"}
              /\ run'[r].pc # run[r].pc)
          => /\ run'[r].pc = "rejected"
             /\ run'[r].writes = run[r].writes]_vars

\* C7 (as claimed): at most one indexBook run of a book is inside its
\* chunk / embed / persist phases.
C7_OneRunPerBook ==
    Cardinality({r \in Runs : run[r].pc \in ActivePcs}) <= 1


\* run r leaves the section loop on this step with no chunk collected
ChunkedNothing(r) ==
    /\ run[r].pc = "section"
    /\ run[r].i = NumSections - 1
    /\ run'[r].pc # "section"
    /\ run'[r].state.totalChunks = 0

\* C13: a run whose chunking produced no chunk resolves with state
\* 'complete', emits no embedding or indexing event and writes nothing, so it
\* leaves the store and the indexed flag as they were; no run reaches a store
\* write, saveMeta included, with zero chunks.
C13_ZeroChunksWriteNothing ==
    /\ [](\A r \in Runs :
            /\ run[r].pc \in {"saveChunks", "saveBM25", "saveMeta"}
                  => run[r].allChunks # <<>>
            /\ run[r].writes # <<>> => run[r].state.totalChunks > 0)
    /\ [][\A r \in Runs :
            ChunkedNothing(r)
            => /\ run'[r].pc = "resolved"
               /\ run'[r].state.status = "complete"
               /\ run'[r].state.progress = 100
               /\ run'[r].writes = <<>>
               /\ \A k \in DOMAIN run'[r].events : run'[r].events[k].phase = "chunking"
               /\ db' = db
               /\ IsIndexed(TheBook)' = IsIndexed(TheBook)]_vars

C13_Witness ==
    \E r \in Runs :
        /\ run[r].pc = "resolved"
        /\ run[r].state.registered
        /\ run[r].state.status = "complete"
        /\ run[r].state.totalChunks = 0
        /\ run[r].writes = <<>>
        /\ ~IsIndexed(TheBook)

\* ------------------------------------------------------------------------
\* AIStore: calls addressed to one book
\* ------------------------------------------------------------------------
Titles == {"t1", "t2"}
Times == {1, 2}
ConversationIds == {1, 2}
MessageIds == {1, 2}
Conversations(b) ==
    [id : ConversationIds, bookHash : {b}, title : Titles, updatedAt : Times]
Messages == [id : MessageIds, conversationId : ConversationIds, createdAt : Times]

\* the chunks of the first n sections of book b, one per section
BookChunks(b, n) == [k \in 1 .. n |-> [ChunkOf(k - 1, 0) EXCEPT !.bookHash = b]]

\* getConversations, getChunks and getMeta return a cached value before openDB
ServedFromCache(name, b) ==
    CASE name = "getConversations" -> conversationCache[b].has
      [] name = "getChunks" -> chunkCache[b].has
      [] name = "isIndexed" -> metaCache[b].has
      [] name = "bm25Search" -> indexCache[b].has /\ chunkCache[b].has
      [] OTHER -> FALSE

\* the call is counted and its outcome kept, with whether it is the first call
\* after a recoverFromError; it went through openDB(b)
Called(name, b, id, ok, result) ==
    /\ storeOp.calls < MaxStoreOps
    /\ dbs' \in (IF ok THEN {OpenDBUnless(ServedFromCache(name, b), b)}
                 ELSE OpenDBSettled(b))
    /\ storeOp' = [name |-> name, book |-> b, id |-> id, ok |-> ok, result |-> result,
                   calls |-> storeOp.calls + 1,
                   recovered |-> storeOp.name = "recoverFromError"]

ConvFrame == UNCHANGED <<dataVars, indexingVars, search, clear, chatVars, titleCall, embedCall, idb, requests>>
ChunkFrame == UNCHANGED <<convVars, indexingVars, search, clear, chatVars, titleCall, embedCall, idb, requests>>

SaveConversationKeepsCache ==
    /\ \E b \in Books : \E c \in Conversations(b) :
         \/ /\ convStore' = [convStore EXCEPT ![c.bookHash] = Put(@, c)]
            /\ Called("saveConversation", c.bookHash, c.id, TRUE, <<>>)
            /\ UNCHANGED <<msgStore, conversationCache>>
         \/ /\ Called("saveConversation", c.bookHash, c.id, FALSE, <<>>)
            /\ UNCHANGED convVars
    /\ ConvFrame

\* saveConversation(conversation)
SaveConversation ==
    /\ \E b \in Books : \E c \in Conversations(b) :
         \/ /\ convStore' = [convStore EXCEPT ![c.bookHash] = Put(@, c)]
            /\ conversationCache' = [conversationCache EXCEPT ![c.bookHash] = NoCache]
            /\ Called("saveConversation", c.bookHash, c.id, TRUE, <<>>)
            /\ UNCHANGED msgStore
         \/ /\ Called("saveConversation", c.bookHash, c.id, FALSE, <<>>)
            /\ UNCHANGED convVars
    /\ ConvFrame

\* getConversations(bookHash)
GetConversationsCall ==
    /\ \E b \in Books :
         \/ /\ conversationCache' = [conversationCache EXCEPT
                                        ![b] = [has |-> TRUE, list |-> GetConversations(b)]]
            /\ Called("getConversations", b, 0, TRUE, GetConversations(b))
         \/ /\ ~conversationCache[b].has
            /\ Called("getConversations", b, 0, FALSE, <<>>)
            /\ UNCHANGED conversationCache
    /\ UNCHANGED <<convStore, msgStore>>
    /\ ConvFrame

DeleteConversationKeepsMessages ==
    /\ \E b \in Books, id \in ConversationIds :
         /\ convStore' = [convStore EXCEPT ![b] = {x \in @ : x.id # id}]
         /\ conversationCache' = [conversationCache EXCEPT ![b] = NoCache]
         /\ Called("deleteConversation", b, id, TRUE, <<>>)
         /\ UNCHANGED msgStore
    /\ ConvFrame

\* deleteConversation(bookHash, id)
DeleteConversation ==
    /\ \E b \in Books, id \in ConversationIds :
         \/ /\ convStore' = [convStore EXCEPT ![b] = {x \in @ : x.id # id}]
            /\ msgStore' = [msgStore EXCEPT ![b] = {x \in @ : x.conversationId # id}]
            /\ conversationCache' = [conversationCache EXCEPT ![b] = NoCache]
            /\ Called("deleteConversation", b, id, TRUE, <<>>)
         \/ /\ Called("deleteConversation", b, id, FALSE, <<>>)
            /\ UNCHANGED convVars
    /\ ConvFrame

\* updateConversationTitle(bookHash, id, title); Date.now() is any time
UpdateConversationTitle ==
    /\ \E b \in Books, id \in ConversationIds, title \in Titles, now \in Times :
         \/ /\ convStore' = [convStore EXCEPT ![b] =
                    {IF x.id = id THEN [x EXCEPT !.title = title, !.updatedAt = now]
                     ELSE x : x \in @}]
            /\ conversationCache' = [conversationCache EXCEPT ![b] = NoCache]
            /\ Called("updateConversationTitle", b, id, TRUE, <<>>)
            /\ UNCHANGED msgStore
         \/ /\ Called("updateConversationTitle", b, id, FALSE, <<>>)
            /\ UNCHANGED convVars
    /\ ConvFrame

\* saveMessage(bookHash, message)
SaveMessage ==
    /\ \E b \in Books, msg \in Messages :
         \/ /\ msgStore' = [msgStore EXCEPT ![b] = Put(@, msg)]
            /\ Called("saveMessage", b, msg.conversationId, TRUE, <<>>)
         \/ /\ Called("saveMessage", b, msg.conversationId, FALSE, <<>>)
            /\ UNCHANGED msgStore
    /\ UNCHANGED <<convStore, conversationCache>>
    /\ ConvFrame

\* getMessages(bookHash, conversationId)
GetMessagesCall ==
    /\ \E b \in Books, id \in ConversationIds :
         \/ Called("getMessages", b, id, TRUE, GetMessages(b, id))
         \/ Called("getMessages", b, id, FALSE, <<>>)
    /\ UNCHANGED convVars
    /\ ConvFrame

NextStore ==
    \/ SaveConversation
    \/ GetConversationsCall
    \/ DeleteConversation
    \/ UpdateConversationTitle
    \/ SaveMessage
    \/ GetMessagesCall

SpecStore == Init /\ [][NextStore]_vars

\* a book that already has two conversations, titled alike, and two messages
\* of the first one, written at any of the times
StoredConversations(b) ==
    {S \in SUBSET {c \in Conversations(b) : c.title = "t1"} :
        \A id \in ConversationIds : Cardinality({c \in S : c.id = id}) = 1}
StoredMessages ==
    {S \in SUBSET {x \in Messages : x.conversationId = 1} :
        \A id \in MessageIds : Cardinality({x \in S : x.id = id}) = 1}

\* the stores as earlier sessions left them; getConversations may have run
InitStored ==
    \E convs \in StoredConversations(TheBook), msgs \in StoredMessages,
       cached \in BOOLEAN :
        /\ db = [b \in Books |-> [chunks |-> {}, meta |-> NoMeta, bm25 |-> NoIndex]]
        /\ chunkCache = [b \in Books |-> NoChunkCache]
        /\ indexCache = [b \in Books |-> NoIndexCache]
        /\ metaCache = [b \in Books |-> NoMetaCache]
        /\ dbs = IF cached THEN {TheBook} ELSE {}
        /\ indexingStates = [b \in Books |-> NoRun]
        /\ run = [r \in Runs |-> NewRun]
        /\ aborted = [r \in Runs |-> FALSE]
        /\ uiIsIndexing = FALSE
        /\ uiIndexed = FALSE
        /\ abortRef = NoRun
        /\ reset = [pc |-> "idle", mayIndex |-> FALSE]
        /\ search = NoSearch
        /\ clear = NoClear
        /\ convStore = [b \in Books |-> IF b = TheBook THEN convs ELSE {}]
        /\ msgStore = [b \in Books |-> IF b = TheBook THEN msgs ELSE {}]
        /\ conversationCache =
              [b \in Books |->
                 IF b = TheBook /\ cached
                 THEN [has |-> TRUE,
                       list |-> LET all == ByKey(convs) IN
                                Values(SortKeyed([i \in DOMAIN all |->
                                          [k |-> 0 - all[i].updatedAt, v |-> all[i]]]))]
                 ELSE NoCache]
        /\ storeOp = NoStoreOp
        /\ InitAdapter
        /\ titleCall = NoTitleCall
        /\ embedCall = NoEmbedCall
        /\ idb = NoHandles
        /\ requests = NoRequests

SpecStored == InitStored /\ [][NextStore]_vars

\* indexBook and clearBookIndex on a book that has conversations
SpecKeep == InitStored /\ [][NextClear]_vars

\* saveChunks([]) returns before openDB: the call is counted, nothing else
CalledWithNothing(name) ==
    /\ storeOp.calls < MaxStoreOps
    /\ storeOp' = [NoStoreOp EXCEPT !.name = name, !.calls = storeOp.calls + 1,
                                    !.recovered = storeOp.name = "recoverFromError"]
    /\ UNCHANGED dbs

StoreSaveChunksCachesOnError ==
    /\ \/ \E b \in Books, n \in 1 .. NumSections :
            LET chunks == BookChunks(b, n)
                bookHash == chunks[1].bookHash
            IN  \/ /\ db' = [db EXCEPT ![bookHash] = SaveChunksDb(@, chunks)]
                   /\ chunkCache' = [chunkCache EXCEPT
                                        ![bookHash] = [has |-> TRUE, chunks |-> chunks]]
                   /\ Called("saveChunks", bookHash, n, TRUE, <<>>)
                \/ /\ Called("saveChunks", bookHash, n, FALSE, <<>>)
                   /\ chunkCache' = [chunkCache EXCEPT
                                        ![bookHash] = [has |-> TRUE, chunks |-> chunks]]
                   /\ UNCHANGED db
       \/ /\ CalledWithNothing("saveChunks")
          /\ UNCHANGED <<db, chunkCache>>
    /\ UNCHANGED <<indexCache, metaCache>>
    /\ ChunkFrame

\* saveChunks(chunks): the database is the one of chunks[0].bookHash; one
\* transaction puts every chunk, its completion sets the cache entry, its
\* error rejects
StoreSaveChunks ==
    /\ \/ \E b \in Books, n \in 1 .. NumSections :
            LET chunks == BookChunks(b, n)
                bookHash == chunks[1].bookHash
            IN  \/ /\ db' = [db EXCEPT ![bookHash] = SaveChunksDb(@, chunks)]
                   /\ chunkCache' = [chunkCache EXCEPT
                                        ![bookHash] = [has |-> TRUE, chunks |-> chunks]]
                   /\ Called("saveChunks", bookHash, n, TRUE, <<>>)
                \/ /\ Called("saveChunks", bookHash, n, FALSE, <<>>)
                   /\ UNCHANGED <<db, chunkCache>>
       \/ /\ CalledWithNothing("saveChunks")
          /\ UNCHANGED <<db, chunkCache>>
    /\ UNCHANGED <<indexCache, metaCache>>
    /\ ChunkFrame

\* saveBM25Index(bookHash, chunks)
StoreSaveBM25Index ==
    /\ \E b \in Books, n \in 1 .. NumSections :
         \/ /\ db' = [db EXCEPT ![b] = SaveBM25Db(@, BookChunks(b, n))]
            /\ indexCache' = [indexCache EXCEPT
                                 ![b] = [has |-> TRUE, docs |-> Docs(BookChunks(b, n))]]
            /\ Called("saveBM25Index", b, n, TRUE, <<>>)
         \/ /\ Called("saveBM25Index", b, n, FALSE, <<>>)
            /\ UNCHANGED <<db, indexCache>>
    /\ UNCHANGED <<chunkCache, metaCache>>
    /\ ChunkFrame

\* saveMeta(meta): the database is the one of meta.bookHash
StoreSaveMeta ==
    /\ \E b \in Books, n \in 1 .. NumSections :
         LET meta == [present |-> TRUE, totalChunks |-> n] IN
         \/ /\ db' = [db EXCEPT ![b] = SaveMetaDb(@, meta)]
            /\ metaCache' = [metaCache EXCEPT ![b] = [has |-> TRUE, meta |-> meta]]
            /\ Called("saveMeta", b, n, TRUE, <<>>)
         \/ /\ Called("saveMeta", b, n, FALSE, <<>>)
            /\ UNCHANGED <<db, metaCache>>
    /\ UNCHANGED <<chunkCache, indexCache>>
    /\ ChunkFrame

\* getChunks(bookHash): a store read fills the chunk cache
StoreGetChunks ==
    /\ \E b \in Books :
         \/ /\ chunkCache' = [chunkCache EXCEPT
                                 ![b] = [has |-> TRUE, chunks |-> GetChunks(b)]]
            /\ Called("getChunks", b, 0, TRUE, <<>>)
         \/ /\ ~chunkCache[b].has
            /\ Called("getChunks", b, 0, FALSE, <<>>)
            /\ UNCHANGED chunkCache
    /\ UNCHANGED <<db, indexCache, metaCache>>
    /\ ChunkFrame

\* isIndexed(bookHash): getMeta, which fills the meta cache from a record
StoreIsIndexed ==
    /\ \E b \in Books :
         \/ /\ metaCache' = [metaCache EXCEPT ![b] = MetaCacheAfterGet(b)]
            /\ Called("isIndexed", b, 0, TRUE, <<IsIndexed(b)>>)
         \/ /\ ~metaCache[b].has
            /\ Called("isIndexed", b, 0, FALSE, <<>>)
            /\ UNCHANGED metaCache
    /\ UNCHANGED <<db, chunkCache, indexCache>>
    /\ ChunkFrame

StoreClearBookEveryBook ==
    /\ \E b \in Books :
         /\ db' = [o \in Books |-> ClearBookDb(db[o])]
         /\ chunkCache' = [o \in Books |-> NoChunkCache]
         /\ indexCache' = [o \in Books |-> NoIndexCache]
         /\ metaCache' = [o \in Books |-> NoMetaCache]
         /\ Called("clearBook", b, 0, TRUE, <<>>)
    /\ ChunkFrame

\* clearBook(bookHash)
StoreClearBook ==
    /\ \E b \in Books :
         \/ /\ db' = [db EXCEPT ![b] = ClearBookDb(@)]
            /\ chunkCache' = [chunkCache EXCEPT ![b] = NoChunkCache]
            /\ indexCache' = [indexCache EXCEPT ![b] = NoIndexCache]
            /\ metaCache' = [metaCache EXCEPT ![b] = NoMetaCache]
            /\ Called("clearBook", b, 0, TRUE, <<>>)
         \/ /\ Called("clearBook", b, 0, FALSE, <<>>)
            /\ UNCHANGED dataVars
    /\ ChunkFrame

\* every AIStore call, on any book
NextBooks ==
    \/ NextStore
    \/ StoreSaveChunks
    \/ StoreSaveBM25Index
    \/ StoreSaveMeta
    \/ StoreGetChunks
    \/ StoreIsIndexed
    \/ StoreClearBook

SpecBooks == Init /\ [][NextBooks]_vars

\* ------------------------------------------------------------------------
\* AIStore: recoverFromError
\* ------------------------------------------------------------------------
\* for (const db of this.dbs.values()) db.close(); this.dbs.clear()
CloseRecorded(h) ==
    [opens |-> [k \in OpenIds |->
                   IF h.opens[k].state = "open" /\ h.recorded[h.opens[k].book] = k
                   THEN [h.opens[k] EXCEPT !.state = "closed"]
                   ELSE h.opens[k]],
     recorded |-> [b \in Books |-> 0]]

RecoverFromErrorKeepsChunkCache ==
    /\ dbs' = {}
    /\ indexCache' = [b \in Books |-> NoIndexCache]
    /\ metaCache' = [b \in Books |-> NoMetaCache]
    /\ conversationCache' = [b \in Books |-> NoCache]
    /\ storeOp' = [NoStoreOp EXCEPT !.name = "recoverFromError", !.calls = storeOp.calls]
    /\ idb' = CloseRecorded(idb)
    /\ UNCHANGED <<db, chunkCache, convStore, msgStore, indexingVars, search, clear,
                   chatVars, titleCall, embedCall, requests>>

\* recoverFromError(): every handle is closed, the map and the four caches
\* are cleared; nothing is awaited and no store is touched
RecoverFromError ==
    /\ dbs' = {}
    /\ chunkCache' = [b \in Books |-> NoChunkCache]
    /\ indexCache' = [b \in Books |-> NoIndexCache]
    /\ metaCache' = [b \in Books |-> NoMetaCache]
    /\ conversationCache' = [b \in Books |-> NoCache]
    /\ storeOp' = [NoStoreOp EXCEPT !.name = "recoverFromError", !.calls = storeOp.calls]
    /\ idb' = CloseRecorded(idb)
    /\ UNCHANGED <<db, convStore, msgStore, indexingVars, search, clear, chatVars,
                   titleCall, embedCall, requests>>

\* ------------------------------------------------------------------------
\* AIStore: openDB, request by request
\* ------------------------------------------------------------------------
HandleFrame ==
    UNCHANGED <<dataVars, indexingVars, search, clear, convVars, storeOp, chatVars,
                titleCall, embedCall, requests>>

\* the open handles of book b
OpenHandles(b) == {k \in OpenIds : idb.opens[k].book = b /\ idb.opens[k].state = "open"}

\* openDB(bookHash) up to its promise: with an entry in the map the handle
\* is returned; without one indexedDB.open is called, whether or not another
\* call is waiting for the same database
OpenDBCall ==
    /\ \E b \in Books, k \in OpenIds :
         /\ b \notin dbs
         /\ idb.opens[k].state = "none"
         /\ \A j \in OpenIds : j < k => idb.opens[j].state # "none"
         /\ idb' = [idb EXCEPT !.opens[k] = [book |-> b, state |-> "pending"]]
    /\ UNCHANGED dbs
    /\ HandleFrame

\* request.onsuccess: the handlers are set, this.dbs.set(bookHash, db)
OpenDBSucceeded ==
    /\ \E k \in OpenIds :
         /\ idb.opens[k].state = "pending"
         /\ idb' = [idb EXCEPT !.opens[k].state = "open",
                               !.recorded[idb.opens[k].book] = k]
         /\ dbs' = OpenDB(idb.opens[k].book)
    /\ HandleFrame

\* request.onerror: the promise rejects
OpenDBFailed ==
    /\ \E k \in OpenIds :
         /\ idb.opens[k].state = "pending"
         /\ idb' = [idb EXCEPT !.opens[k].state = "failed"]
    /\ UNCHANGED dbs
    /\ HandleFrame

\* db.onclose: the browser closed the handle; this.dbs.delete(bookHash)
HandleClosed ==
    /\ \E k \in OpenIds :
         /\ idb.opens[k].state = "open"
         /\ idb' = [idb EXCEPT !.opens[k].state = "closed",
                               !.recorded[idb.opens[k].book] = 0]
         /\ dbs' = dbs \ {idb.opens[k].book}
    /\ HandleFrame

NextHandles ==
    \/ OpenDBCall
    \/ OpenDBSucceeded
    \/ OpenDBFailed
    \/ HandleClosed
    \/ RecoverFromError

SpecHandles == Init /\ [][NextHandles]_vars

\* the queries of the bm25Search calls made here
RecoverQueries == {{"b"}, {"w"}}

\* bm25Search(bookHash, query, topK): loadBM25Index, which caches a loaded
\* index, then getChunks, which caches what it read, unless there is no index;
\* it rejects when the request of either read fails
StoreBm25Search ==
    /\ \E b \in Books, q \in RecoverQueries :
         LET index == LoadBM25Index(b)
             result == Bm25Search(index, GetChunks(b), q, MaxK, NoPage)
         IN  \/ /\ indexCache' = IndexCacheAfterLoad(b)
                /\ chunkCache' = [chunkCache EXCEPT
                                     ![b] = IF index.has
                                            THEN [has |-> TRUE, chunks |-> GetChunks(b)]
                                            ELSE @]
                /\ Called("bm25Search", b, 0, TRUE, [k \in DOMAIN result |-> result[k].id])
             \/ /\ \/ ~indexCache[b].has /\ UNCHANGED indexCache
                   \/ /\ index.has /\ ~chunkCache[b].has
                      /\ indexCache' = IndexCacheAfterLoad(b)
                /\ Called("bm25Search", b, 0, FALSE, <<>>)
                /\ UNCHANGED chunkCache
    /\ UNCHANGED <<db, metaCache>>
    /\ ChunkFrame

\* recoverFromError among the writes that fill the caches or make them differ
\* from the stores and the reads of each kind
NextRecover ==
    \/ StoreSaveChunks
    \/ SaveConversation
    \/ SaveMessage
    \/ StoreGetChunks
    \/ StoreIsIndexed
    \/ StoreBm25Search
    \/ GetConversationsCall
    \/ GetMessagesCall
    \/ RecoverFromError

\* recoverFromError is for a store in use: the book is indexed, its handle is
\* open and its caches are filled
InitRecover == \E chunks \in ChatBooks : InitIndexed(chunks)

SpecRecover == InitRecover /\ [][NextRecover]_vars

\* the transaction of a clearBookIndex call completes on this step
ClearCompletes ==
    clear.pc = "pending" /\ clear'.pc = "idle" /\ clear'.last = "ok"

\* C14: when clearBookIndex completes with no indexBook run in flight, the
\* book is not indexed: its chunks, meta and BM25 records are gone, its entries
\* in the chunk, index and meta caches are dropped, and its IndexingState
\* entry is deleted.
C14_ClearLeavesNotIndexed ==
    [][(ClearCompletes /\ NoRunInFlight)
       => /\ ~IsIndexed(TheBook)'
          /\ ~GetMeta(TheBook)'.present
          /\ db'[TheBook] = [chunks |-> {}, meta |-> NoMeta, bm25 |-> NoIndex]
          /\ chunkCache'[TheBook] = NoChunkCache
          /\ indexCache'[TheBook] = NoIndexCache
          /\ metaCache'[TheBook] = NoMetaCache
          /\ indexingStates'[TheBook] = NoRun]_vars

C14_Witness ==
    /\ clear.pc = "idle"
    /\ clear.last = "ok"
    /\ NoRunInFlight
    /\ \E r \in Runs : run[r].writes = PersistSequence /\ run[r].pc = "resolved"
    /\ db[TheBook].chunks = {}
    /\ ~IsIndexed(TheBook)

\* a call of the named AIStore method settles on this step
Settles(name, ok) ==
    /\ storeOp'.calls = storeOp.calls + 1
    /\ storeOp'.name = name
    /\ storeOp'.ok = ok

BookState(o) ==
    <<db[o], chunkCache[o], indexCache[o], metaCache[o],
      convStore[o], msgStore[o], conversationCache[o]>>

\* what the reads of book o return; every search of o is computed from its
\* getChunks and its loaded BM25 index
BookReads(o) ==
    <<IsIndexed(o), GetChunks(o), LoadBM25Index(o), GetConversations(o)>>

\* C16: an AIStore call addressed to one book, completed or failed, leaves the
\* persisted records and the caches of every other book as they were, and
\* with them isIndexed, getChunks, the BM25 index and getConversations of the
\* other book.
C16_BookIsolation ==
    [][\A b \in Books :
          (storeOp'.calls = storeOp.calls + 1 /\ storeOp'.book = b)
          => \A o \in Books \ {b} :
                /\ BookState(o)' = BookState(o)
                /\ <<IsIndexed(o)', GetChunks(o)', LoadBM25Index(o)',
                      GetConversationsOf(conversationCache'[o], convStore'[o])>>
                       = BookReads(o)]_vars

C16_Witness ==
    \E o \in Books \ {TheBook} :
        /\ storeOp.name = "clearBook"
        /\ storeOp.ok
        /\ storeOp.book = TheBook
        /\ storeOp.calls = MaxStoreOps
        /\ IsIndexed(o)
        /\ ~IsIndexed(TheBook)

\* ------------------------------------------------------------------------
\* Properties of retrieval
\* ------------------------------------------------------------------------
AllItems(seq, P(_)) == \A k \in DOMAIN seq : P(seq[k])
WithinPage(seq, maxPage) ==
    maxPage # NoPage => AllItems(seq, LAMBDA x : x.pageNumber <= maxPage)
One == <<1, 1>>

\* C8: hybridSearch returns at most topK items; with a maxPage every item
\* returned by hybridSearch, vectorSearch or bm25Search has
\* pageNumber <= maxPage.
C8_SearchBounds ==
    /\ search.op = "hybrid" => Len(search.result) <= search.topK
    /\ search.op \in {"hybrid", "vector", "bm25"}
          => WithinPage(search.result, search.maxPage)

C8_Witness ==
    /\ search.op = "hybrid"
    /\ search.maxPage = 0
    /\ search.topK = 1
    /\ Len(search.result) = 1
    /\ Len(search.bm25) = 1
    /\ \E c \in db[TheBook].chunks :
         c.pageNumber > 0 /\ c.embedding.present /\ "b" \in c.text.terms

\* C9 (as claimed): in hybridSearch every normalized vector score and every
\* normalized BM25 score (before its weight 0.8) is in [0,1], and so is the
\* fused score of every returned item.
C9_ScoresInUnitInterval ==
    search.op = "hybrid" =>
        /\ AllItems(search.vector,
                    LAMBDA x : RatLeq(Zero, x.score) /\ RatLeq(x.score, One))
        /\ AllItems(search.bm25,
                    LAMBDA x : RatLeq(Zero, x.score) /\ RatLeq(x.score, Bm25Weight))
        /\ AllItems(search.result,
                    LAMBDA x : RatLeq(Zero, x.score) /\ RatLeq(x.score, One))

\* C10: every chunk returned by getPageContextChunks or getChapterContextChunks
\* has searchMethod 'context' and score 2.0, and every item hybridSearch
\* returns has a score strictly below 2.0.
C10_ContextOutranks ==
    /\ search.op \in {"page", "chapter"}
          => AllItems(search.result,
                      LAMBDA x : x.score = ContextScore /\ x.searchMethod = "context")
    /\ search.op = "hybrid"
          => AllItems(search.result, LAMBDA x : RatLess(x.score, ContextScore))

C10_Witness ==
    /\ search.op = "chapter"
    /\ search.pageNumber = 1
    /\ Len(search.result) = 2

\* the passages (deduplication keys) of a result list
Keys(seq) == {MergeKey(seq[k]) : k \in DOMAIN seq}
WithKey(seq, key) == {k \in DOMAIN seq : MergeKey(seq[k]) = key}

\* the chunks of the book the lunr query matches
LexicalMatches(query) ==
    {c \in db[TheBook].chunks : ~QueryThrows(query) /\ c.text.terms \cap query # {}}

\* chunk x is searchable by vector and strictly closest to the query embedding
Closest(x, qe, maxPage) ==
    /\ qe.present
    /\ x.embedding.present
    /\ ~PastMaxPage(x, maxPage)
    /\ \A y \in db[TheBook].chunks \ {x} :
          (y.embedding.present /\ ~PastMaxPage(y, maxPage))
          => RatLess(cosineSimilarity(qe.vec, y.embedding.vec),
                     cosineSimilarity(qe.vec, x.embedding.vec))

\* the query of the search matches exactly chunk x, and x is the closest
TieBreakCase(x) ==
    /\ search.op = "hybrid"
    /\ search.topK >= 1
    /\ LexicalMatches(search.query) = {x}
    /\ Closest(x, search.queryEmbedding, search.maxPage)

\* C11: in hybridSearch a passage (deduplication key) returned by both
\* sub-searches is in the merged list exactly once, tagged 'hybrid', with the
\* largest of its weighted normalized scores, max(vectorNorm, bm25Norm * 0.8);
\* when the query matches exactly one chunk and that chunk is the closest to
\* the query embedding, the top result is that chunk, tagged 'hybrid'.
C11_HybridFusion ==
    search.op = "hybrid" =>
        LET weighted == search.vector \o search.bm25
            merged == Merge(weighted, <<>>)
        IN  /\ \A key \in Keys(search.vector) \cap Keys(search.bm25) :
                  /\ Cardinality(WithKey(merged, key)) = 1
                  /\ \A k \in WithKey(merged, key) :
                        /\ merged[k].searchMethod = "hybrid"
                        /\ \A j \in WithKey(weighted, key) :
                              RatLeq(weighted[j].score, merged[k].score)
                        /\ \E j \in WithKey(weighted, key) :
                              weighted[j].score = merged[k].score
            /\ \A x \in db[TheBook].chunks :
                  TieBreakCase(x) =>
                      /\ Len(search.result) >= 1
                      /\ search.result[1].id = x.id
                      /\ search.result[1].searchMethod = "hybrid"

C11_Witness ==
    /\ \E x \in db[TheBook].chunks : TieBreakCase(x)
    /\ Len(search.vector) >= 2
    /\ Len(search.bm25) = 1
    /\ Len(search.result) >= 1
    /\ search.result[1].searchMethod = "hybrid"

\* the chunk ids of a result list, in order
IdsOf(seq) == [k \in DOMAIN seq |-> seq[k].id]

\* the store an indexBook run leaves when its embedding requests failed
NoChunkEmbedded == \A c \in db[TheBook].chunks : ~c.embedding.present

\* C12 (as claimed): on a book indexed during an embedding outage (no stored
\* chunk has an embedding) vectorSearch returns the empty list and
\* hybridSearch returns the BM25 results, every one tagged 'bm25'.
C12_OutageDegradation ==
    NoChunkEmbedded =>
        /\ search.op = "vector" => search.result = <<>>
        /\ search.op = "hybrid" =>
              /\ search.vector = <<>>
              /\ IdsOf(search.result) = IdsOf(Slice(search.bm25, search.topK))
              /\ AllItems(search.result, LAMBDA x : x.searchMethod = "bm25")


\* ------------------------------------------------------------------------
\* Properties of retrieval without a usable index or embedding
\* ------------------------------------------------------------------------
\* bm25Search has nothing to search with: lunr rejects the query, or
\* loadBM25Index gave null (no record, or a record that does not load)
LexicalSearchFails == QueryThrows(search.query) \/ ~LoadBM25Index(TheBook).has

\* C21: bm25Search returns the empty list when lunr rejects the query, when
\* the book has no BM25 record and when the stored serialization does not
\* load; hybridSearch then returns the vector results: the chunks
\* vectorSearch returns for the same arguments, in the same order, tagged
\* 'vector'.
C21_LexicalFailureGivesVector ==
    LexicalSearchFails =>
        /\ search.op = "bm25" => search.result = <<>>
        /\ search.op = "hybrid" =>
              /\ search.bm25 = <<>>
              /\ search.hasEmbedding =>
                    /\ IdsOf(search.result) =
                          IdsOf(VectorSearch(GetChunks(TheBook),
                                             search.queryEmbedding.vec,
                                             search.topK, search.maxPage))
                    /\ AllItems(search.result, LAMBDA x : x.searchMethod = "vector")

\* C22: when the query embedding could not be computed hybridSearch runs with
\* a null embedding: the vector sub-search is skipped and the result is the
\* BM25 result, with no item tagged 'vector' or 'hybrid'.
C22_NullEmbeddingGivesBm25 ==
    (search.op = "hybrid" /\ ~search.hasEmbedding) =>
        /\ search.vector = <<>>
        /\ IdsOf(search.result) = IdsOf(Slice(search.bm25, search.topK))
        /\ AllItems(search.result,
                    LAMBDA x : x.searchMethod \notin {"vector", "hybrid"})

\* ------------------------------------------------------------------------
\* Properties of the progress events
\* ------------------------------------------------------------------------
\* C24: a progress event of the chunking phase has total equal to the number
\* of sections, and while the section loop runs the last event emitted has
\* current equal to the number of sections processed so far.
C24_ChunkingProgress ==
    \A r \in Runs :
        LET events == run[r].events IN
        /\ \A k \in DOMAIN events :
              events[k].phase = "chunking" => events[k].total = NumSections
        /\ (run[r].pc = "section" /\ events # <<>>) =>
              /\ events[Len(events)].phase = "chunking"
              /\ events[Len(events)].current = run[r].i

PhaseRank(phase) ==
    IF phase = "chunking" THEN 0 ELSE IF phase = "embedding" THEN 1 ELSE 2

\* C25: the progress events of one indexBook call are ordered by phase,
\* chunking, then embedding, then indexing; the current of the embedding
\* events never decreases and never exceeds total; the indexing events carry
\* 0, 1, 2 in that order, 1 only once the chunks are persisted and 2 only
\* once the meta record is persisted.
C25_ProgressOrder ==
    \A r \in Runs :
        LET events == run[r].events
            indexing == SelectSeq(events, LAMBDA e : e.phase = "indexing")
        IN  /\ \A j, k \in DOMAIN events :
                  j < k =>
                     /\ PhaseRank(events[j].phase) <= PhaseRank(events[k].phase)
                     /\ (events[j].phase = "embedding" /\ events[k].phase = "embedding")
                           => events[j].current <= events[k].current
            /\ \A k \in DOMAIN events :
                  events[k].phase = "embedding" => events[k].current <= events[k].total
            /\ \A k \in DOMAIN indexing :
                  /\ indexing[k].current = k - 1
                  /\ indexing[k].total = 2
                  /\ indexing[k].current = 1 => "chunks" \in Range(run[r].writes)
                  /\ indexing[k].current = 2 => "meta" \in Range(run[r].writes)
            /\ Len(indexing) <= 3

\* a run through all phases with two embedding batches
C25_Witness ==
    \E r \in Runs :
        /\ run[r].pc = "resolved"
        /\ Len(SelectSeq(run[r].events, LAMBDA e : e.phase = "embedding")) = 4
        /\ Len(SelectSeq(run[r].events, LAMBDA e : e.phase = "indexing")) = 3

\* the chunks of sections 0 .. upTo - 1, those in `taken` only
RECURSIVE ChunksOfSections(_, _)
ChunksOfSections(taken, upTo) ==
    IF upTo = 0 THEN <<>>
    ELSE ChunksOfSections(taken, upTo - 1)
            \o (IF (upTo - 1) \in taken THEN SectionChunks(upTo - 1) ELSE <<>>)

\* C26: a section whose createDocument, text extraction or chunking throws
\* is skipped: the run goes on to the next section with the chunks it had,
\* exactly as when the section gives no chunk, and it rejects at that point
\* only for an abort or a throwing callback; the chunks a run persists are
\* those of the sections that gave chunks.
C26_SectionFailureSkipped ==
    \A r \in Runs :
        /\ run[r].pc = "section" =>
              /\ SectionProcessed(run[r], aborted[r], "throw")
                    = SectionProcessed(run[r], aborted[r], "short")
              /\ \A o \in SectionProcessed(run[r], aborted[r], "throw") :
                    /\ o.i = run[r].i + 1
                    /\ o.allChunks = run[r].allChunks
                    /\ o.pc = "rejected" =>
                          o.state.error \in {AbortedMsg, CallbackErrorMsg}
                    /\ (o.pc = "resolved") => o.allChunks = <<>>
        /\ \E taken \in SUBSET (0 .. (run[r].i - 1)) :
              Ids(run[r].allChunks) = Ids(ChunksOfSections(taken, run[r].i))
        /\ "chunks" \in Range(run[r].writes) =>
              Ids(run[r].allChunks) \subseteq {c.id : c \in db[TheBook].chunks}

\* a run that skipped its first section and persisted the chunks of the other
C26_Witness ==
    \E r \in Runs :
        /\ run[r].pc = "resolved"
        /\ run[r].writes = PersistSequence
        /\ run[r].state.totalChunks = ChunksPerSection
        /\ {c.id : c \in db[TheBook].chunks} = Ids(SectionChunks(NumSections - 1))

\* ------------------------------------------------------------------------
\* Properties of the persisted index
\* ------------------------------------------------------------------------
\* C27: when saveBM25Index of an indexBook run has completed (the run waits
\* for saveMeta), the chunk ids of the stored BM25 index are the chunk ids of
\* the book's chunks store.
C27_IndexCoversStoredChunks ==
    \A r \in Runs :
        run[r].pc = "saveMeta" =>
            {d.id : d \in db[TheBook].bm25.docs} = {c.id : c \in db[TheBook].chunks}

\* ------------------------------------------------------------------------
\* Properties of saveChunks
\* ------------------------------------------------------------------------
\* a saveChunks call with the first n chunks of book b settles on this step
SaveChunksSettles(b, n) ==
    /\ storeOp'.calls = storeOp.calls + 1
    /\ storeOp'.name = "saveChunks"
    /\ storeOp'.book = b
    /\ storeOp'.id = n

\* C29: saveChunks writes its chunks in one transaction: when the call
\* rejects, the chunks store and the chunk cache of the book are as before;
\* when it resolves, every given chunk is in the store (over the records with
\* the same ids) and the cache entry of the book is exactly the given list.
C29_SaveChunksAllOrNothing ==
    [][\A b \in Books, n \in 1 .. NumSections :
          SaveChunksSettles(b, n) =>
             IF storeOp'.ok
             THEN /\ db'[b].chunks = PutChunks(db[b].chunks, BookChunks(b, n))
                  /\ chunkCache'[b] = [has |-> TRUE, chunks |-> BookChunks(b, n)]
             ELSE /\ db'[b] = db[b]
                  /\ chunkCache'[b] = chunkCache[b]]_vars

\* a second saveChunks of the book resolved: the cache holds its list only,
\* the store also the chunk of the first call
C29_Witness ==
    /\ storeOp.name = "saveChunks"
    /\ storeOp.ok
    /\ storeOp.calls = MaxStoreOps
    /\ storeOp.book = TheBook
    /\ chunkCache[TheBook] = [has |-> TRUE, chunks |-> BookChunks(TheBook, 1)]
    /\ db[TheBook].chunks = Range(BookChunks(TheBook, NumSections))

\* ------------------------------------------------------------------------
\* Properties of the conversation reads
\* ------------------------------------------------------------------------
\* the list holds every record of the set once and nothing else
ListsExactly(list, records) ==
    /\ {list[k] : k \in DOMAIN list} = records
    /\ Len(list) = Cardinality(records)

NewestFirst(list) ==
    \A j, k \in DOMAIN list : j < k => list[j].updatedAt >= list[k].updatedAt

OldestFirst(list) ==
    \A j, k \in DOMAIN list : j < k => list[j].createdAt <= list[k].createdAt

MessagesOf(b, id) == {x \in msgStore[b] : x.conversationId = id}

\* C30: whatever saveConversation, updateConversationTitle and
\* deleteConversation calls have settled, getConversations(b) gives exactly the
\* conversations persisted for b, latest updatedAt first, and
\* getMessages(b, id) exactly the persisted messages of id, earliest createdAt
\* first; so does a call of either that just resolved.
C30_ConversationReads ==
    /\ \A b \in Books :
         /\ ListsExactly(GetConversations(b), convStore[b])
         /\ NewestFirst(GetConversations(b))
         /\ \A id \in ConversationIds :
              /\ ListsExactly(GetMessages(b, id), MessagesOf(b, id))
              /\ OldestFirst(GetMessages(b, id))
    /\ storeOp.ok /\ storeOp.name = "getConversations" =>
          /\ ListsExactly(storeOp.result, convStore[storeOp.book])
          /\ NewestFirst(storeOp.result)
    /\ storeOp.ok /\ storeOp.name = "getMessages" =>
          /\ ListsExactly(storeOp.result, MessagesOf(storeOp.book, storeOp.id))
          /\ OldestFirst(storeOp.result)

\* updateConversationTitle retitled one of the two conversations, which made
\* it the latest, and getConversations then returned it first
C30_Witness ==
    /\ storeOp.ok
    /\ storeOp.name = "getConversations"
    /\ storeOp.calls = MaxStoreOps
    /\ Len(storeOp.result) = 2
    /\ storeOp.result[1].title = "t2"
    /\ storeOp.result[1].updatedAt > storeOp.result[2].updatedAt

\* ------------------------------------------------------------------------
\* Properties of recoverFromError
\* ------------------------------------------------------------------------
\* what a read of the book's stores gives when nothing is cached
PersistedIndex(b) ==
    IF db[b].bm25.present /\ db[b].bm25.loadable
    THEN [has |-> TRUE, docs |-> db[b].bm25.docs]
    ELSE NoIndexCache

PersistedIsIndexed(b) == db[b].meta.present /\ db[b].meta.totalChunks > 0

PersistedBm25(b, q) ==
    LET result == Bm25Search(PersistedIndex(b), SortedById(db[b].chunks), q, MaxK, NoPage)
    IN  [k \in DOMAIN result |-> result[k].id]

\* the map of handles and the four caches hold nothing, for any book
AllDropped ==
    /\ dbs = {}
    /\ \A b \in Books :
         /\ ~chunkCache[b].has
         /\ ~indexCache[b].has
         /\ ~metaCache[b].has
         /\ ~conversationCache[b].has

\* the call that settled last is the first one after recoverFromError, a read
\* of this name that resolved
ReadAfterRecover(name) == storeOp.recovered /\ storeOp.ok /\ storeOp.name = name

\* C28: right after recoverFromError the handle map and the chunk, BM25, meta
\* and conversation caches are empty for every book, and a read that follows,
\* of any kind, opened the database and returned what the stores hold.
C28_RecoverDropsHandlesAndCaches ==
    /\ storeOp.name = "recoverFromError" => AllDropped
    /\ \A b \in Books :
         storeOp.recovered /\ storeOp.ok /\ storeOp.book = b =>
            /\ storeOp.name \in {"getChunks", "isIndexed", "bm25Search",
                                 "getConversations", "getMessages"} => dbs = {b}
            /\ ReadAfterRecover("getChunks") =>
                  chunkCache[b] = [has |-> TRUE, chunks |-> SortedById(db[b].chunks)]
            /\ ReadAfterRecover("isIndexed") =>
                  /\ storeOp.result = <<PersistedIsIndexed(b)>>
                  /\ metaCache[b].has => metaCache[b].meta = db[b].meta
            /\ ReadAfterRecover("bm25Search") =>
                  /\ storeOp.result \in {PersistedBm25(b, q) : q \in RecoverQueries}
                  /\ indexCache[b] = PersistedIndex(b)
            /\ ReadAfterRecover("getConversations") =>
                  /\ storeOp.result = ReadConversations(b)
                  /\ conversationCache[b] = [has |-> TRUE, list |-> ReadConversations(b)]
            /\ ReadAfterRecover("getMessages") =>
                  storeOp.result = GetMessages(b, storeOp.id)

\* chunks were saved, recoverFromError ran, and getChunks read them back
C28_Witness ==
    /\ ReadAfterRecover("getChunks")
    /\ db[storeOp.book].chunks # {}
    /\ chunkCache[storeOp.book].chunks = SortedById(db[storeOp.book].chunks)
    /\ dbs = {storeOp.book}

\* ------------------------------------------------------------------------
\* Properties of getChapterTitle
\* ------------------------------------------------------------------------
\* the TOC entries at or before section i
AtOrBefore(toc, i) == {k \in DOMAIN toc : toc[k].id <= i}
\* entry k is the last of them in the order of the list
LastAtOrBefore(toc, i, k) == k \in AtOrBefore(toc, i) /\ \A j \in AtOrBefore(toc, i) : j <= k

\* C23 (as claimed): for every TOC and every section index i the title is
\* the label of the last TOC entry whose sectionId <= i, and "Section {i+1}"
\* if the TOC is empty.
C23_TitleIsLastEntryAtOrBefore ==
    titleCall.called =>
        LET toc == titleCall.toc
            i == titleCall.sectionIndex
        IN  IF toc = <<>> THEN titleCall.result = SectionTitle(i)
            ELSE \E k \in DOMAIN toc :
                    LastAtOrBefore(toc, i, k) /\ titleCall.result = toc[k].label

\* C23 (amended): the title is "Section {i+1}" for an empty TOC, else the
\* label of the last entry in list order whose sectionId <= i when there is
\* one, else the label of the first entry, or "Section {i+1}" when that label
\* is empty.
C23_TitleResolution ==
    titleCall.called =>
        LET toc == titleCall.toc
            i == titleCall.sectionIndex
        IN  IF toc = <<>> THEN titleCall.result = SectionTitle(i)
            ELSE IF AtOrBefore(toc, i) # {}
                 THEN \E k \in DOMAIN toc :
                         LastAtOrBefore(toc, i, k) /\ titleCall.result = toc[k].label
                 ELSE titleCall.result =
                         IF toc[1].label = "" THEN SectionTitle(i) ELSE toc[1].label

\* a TOC that is not sorted by sectionId, with two entries at or before the
\* section and different labels: the later one in the list gives the title
C23_Witness ==
    /\ titleCall.called
    /\ Len(titleCall.toc) = 2
    /\ titleCall.toc[1].id > titleCall.toc[2].id
    /\ titleCall.toc[1].id <= titleCall.sectionIndex
    /\ titleCall.toc[1].label # titleCall.toc[2].label
    /\ titleCall.result = titleCall.toc[2].label

\* ------------------------------------------------------------------------
\* Properties of a chat request
\* ------------------------------------------------------------------------
IdSet(seq) == {seq[k].id : k \in DOMAIN seq}
NoIdTwice(seq) == \A i, j \in DOMAIN seq : seq[i].id = seq[j].id => i = j

\* C17: when the retrieval of a chat request on an indexed book succeeds, the
\* list it publishes is every page-context chunk of the current page in the
\* returned order, then the hybrid-search results whose id is not among
\* them, in rank order; no chunk id is in the list twice.
C17_SourceListOrder ==
    [][(chat.pc = "retrieval" /\ chat'.retrieved = "ok") =>
          LET o == chat.options
              all == GetChunks(o.bookHash)
              pageChunks == GetPageContextChunks(all, o.currentPage)
              searchChunks == chat'.searchChunks
          IN  /\ IsIndexed(o.bookHash)
              /\ \E qe \in ChatQueryEmbeddings :
                    searchChunks = HybridSearch(LoadBM25Index(o.bookHash), all, qe,
                                                chat.query, TopKOf(o.settings),
                                                MaxPageOf(o))
              /\ lastSources' =
                    pageChunks \o SelectSeq(searchChunks,
                                            LAMBDA c : c.id \notin IdSet(pageChunks))
              /\ NoIdTwice(lastSources')]_vars

\* a published list where a search result was dropped as a page chunk and
\* another one was appended after the page chunks
C17_Witness ==
    /\ chat.pc = "stream" /\ chat.retrieved = "ok" /\ lastSources = chat.chunks
    /\ Len(chat.pageChunks) = 2
    /\ Len(lastSources) > Len(chat.pageChunks)
    /\ \E k \in DOMAIN chat.searchChunks :
          chat.searchChunks[k].id \in IdSet(chat.pageChunks)

InFlight(c) == c.pc \in {"isBookIndexed", "retrieval", "stream"}

\* what a run passed on is what the options it read give
UsesOptions(c) ==
    /\ c.asked # "none" => c.asked = c.options.bookHash
    /\ c.retrieval # NoRetrieval =>
          c.retrieval = [bookHash |-> c.options.bookHash,
                         pageNumber |-> c.options.currentPage,
                         topK |-> TopKOf(c.options.settings),
                         maxPage |-> MaxPageOf(c.options)]
    /\ c.prompt.built =>
          /\ c.prompt.bookTitle = c.options.bookTitle
          /\ c.prompt.currentPage = c.options.currentPage

\* C18: a chat request reads the options once, when it starts: the options
\* it holds are optionsRef.current of that moment, they stay the same while
\* the request is in flight whatever happens to optionsRef, and the book it
\* asks about, the retrieval arguments and the prompt inputs come from them.
C18_OptionsReadOnce ==
    [][/\ (~InFlight(chat) /\ chat'.pc # chat.pc) => chat'.options = optionsRef
       /\ InFlight(chat) => chat'.options = chat.options
       /\ UsesOptions(chat')]_vars

\* a request that called the retrieval after every option of the panel had
\* changed under it
C18_Witness ==
    /\ chat.pc = "retrieval" /\ chat.retrieval # NoRetrieval
    /\ optionsRef.bookHash # chat.options.bookHash
    /\ optionsRef.currentPage # chat.options.currentPage
    /\ optionsRef.settings # chat.options.settings
    /\ optionsRef.bookTitle # chat.options.bookTitle

\* C19: the slot goes from empty to non-empty only by a request on an
\* indexed book whose retrieval succeeded; clearLastSources, a request on a
\* book that is not indexed and a retrieval that throws leave it empty.
C19_EmptyUntilRetrieval ==
    [][/\ (lastSources' # <<>> /\ lastSources' # lastSources) =>
             /\ chat.pc = "retrieval" /\ chat.indexed
             /\ chat'.retrieved = "ok" /\ lastWrite' = "retrieval"
       /\ lastWrite' = "clear" => lastSources' = <<>>
       /\ (chat.pc = "isBookIndexed" /\ chat'.pc = "stream") =>
             lastSources' = <<>> /\ lastWrite' = "notIndexed"
       /\ (chat.pc = "retrieval" /\ chat'.retrieved = "threw") =>
             lastSources' = <<>> /\ lastWrite' = "ragFailed"]_vars

\* the slot was cleared and is empty while the retrieval of a request on an
\* indexed book is pending
C19_Witness ==
    /\ lastSources = <<>> /\ lastWrite = "clear"
    /\ chat.pc = "retrieval" /\ chat.indexed

\* C20: when a run of the adapter ends by throwing an error that is not an
\* abort, getLastSources returns the empty list.
C20_ThrowClearsSources == chat.pc = "threw" => lastSources = <<>>


\* ------------------------------------------------------------------------
\* Properties of getChapterContextChunks
\* ------------------------------------------------------------------------
\* the positions of the book's chunks that lie on the page
OnPage(chunks, pageNumber) == {k \in DOMAIN chunks : chunks[k].pageNumber = pageNumber}

\* the section of the first chunk on the page
SectionOfPage(chunks, pageNumber) ==
    LET first == CHOOSE k \in OnPage(chunks, pageNumber) :
                     \A j \in OnPage(chunks, pageNumber) : k <= j
    IN  chunks[first].sectionIndex

\* C31: getChapterContextChunks(book, page) is empty when no chunk of the book
\* has that pageNumber; otherwise it holds every chunk of the section of the
\* first chunk on the page, each once with its id, and no other chunk.
C31_ChapterContext ==
    search.op = "chapter" =>
        LET chunks == GetChunks(TheBook)
            ids == {search.result[k].id : k \in DOMAIN search.result}
        IN  IF OnPage(chunks, search.pageNumber) = {}
            THEN search.result = <<>>
            ELSE LET sectionIndex == SectionOfPage(chunks, search.pageNumber)
                     ofSection == {k \in DOMAIN chunks :
                                     chunks[k].sectionIndex = sectionIndex}
                 IN  /\ ids = {chunks[k].id : k \in ofSection}
                     /\ Len(search.result) = Cardinality(ofSection)
                     /\ \A k \in DOMAIN search.result :
                           /\ search.result[k].sectionIndex = sectionIndex
                           /\ \E j \in ofSection :
                                 /\ chunks[j].id = search.result[k].id
                                 /\ chunks[j].text = search.result[k].text

\* the page holds chunks of two sections: the chunks of the first one are
\* returned, one of them from another page, and the chunk of the second is not
C31_Witness ==
    /\ search.op = "chapter"
    /\ search.pageNumber = 1
    /\ Len(search.result) = 2
    /\ \E k \in DOMAIN search.result : search.result[k].pageNumber = 0
    /\ \E c \in db[TheBook].chunks : c.pageNumber = 1 /\ c.sectionIndex = 1


\* ------------------------------------------------------------------------
\* Properties of the embedding batches
\* ------------------------------------------------------------------------
RECURSIVE Flatten(_)
Flatten(seqs) == IF seqs = <<>> THEN <<>> ELSE Head(seqs) \o Flatten(Tail(seqs))

\* C32: the texts go to the provider as consecutive batches of at most
\* BATCH_SIZE, in order, one request per batch; when the loop ends normally
\* the embedding assigned to chunk k is the provider's embedding of the text
\* of chunk k, in whatever order the items of each response arrived.
C32_BatchedEmbeddingsAligned ==
    LET c == embedCall
        n == Len(c.texts)
    IN  /\ Flatten(c.sent) = SubSeq(c.texts, 1, Len(Flatten(c.sent)))
        /\ \A b \in DOMAIN c.sent :
              /\ Len(c.sent[b]) <= BATCH_SIZE
              /\ b < Len(c.sent) => Len(c.sent[b]) = BATCH_SIZE
        /\ c.pc \in {"batch", "done"} =>
              \A k \in DOMAIN c.embeddings : c.embeddings[k] = ProviderEmbedding(c.texts[k])
        /\ c.pc = "done" =>
              /\ Flatten(c.sent) = c.texts
              /\ Len(c.sent) = (n + BATCH_SIZE - 1) \div BATCH_SIZE
              /\ DOMAIN c.assigned = DOMAIN c.texts
              /\ \A k \in DOMAIN c.texts : c.assigned[k] = ProviderEmbedding(c.texts[k])

\* three batches, the last of one text; the items of the second arrived in
\* reverse order
C32_Witness ==
    /\ embedCall.pc = "batch"
    /\ Len(embedCall.texts) = 2 * BATCH_SIZE + 1
    /\ Len(embedCall.sent) = 2
    /\ \A k \in DOMAIN embedCall.response :
          embedCall.response[k].index = BATCH_SIZE - k
    /\ Len(embedCall.embeddings) = 2 * BATCH_SIZE


\* ------------------------------------------------------------------------
\* Properties of indexBook running against clearBookIndex
\* ------------------------------------------------------------------------
\* C33: whenever isIndexed(B) is true, the chunks store of B holds exactly
\* meta.totalChunks chunks and B has a BM25 record, whatever the interleaving
\* of indexBook, cancellation and clearBookIndex.
C33_IndexedMeansComplete ==
    IsIndexed(TheBook) =>
        /\ Cardinality(db[TheBook].chunks) = GetMeta(TheBook).totalChunks
        /\ db[TheBook].bm25.present


\* ------------------------------------------------------------------------
\* Properties of the assistant panel's indexing controls
\* ------------------------------------------------------------------------
\* the indexBook call of run r was made and has not settled
InProgress(r) == run[r].pc # "idle" /\ ~Settled(run[r])

\* C34: while a run started by performIndexing is in progress and was not
\* cancelled, abortControllerRef holds its controller and isIndexing is true;
\* the settling of an earlier, cancelled run takes neither away.
C34_ControllerFollowsRun ==
    \A r \in Runs :
        InProgress(r) /\ ~aborted[r] => abortRef = r /\ uiIsIndexing


\* ------------------------------------------------------------------------
\* Properties of the fusion in hybridSearch, chunk by chunk
\* ------------------------------------------------------------------------
\* the chunk ids either sub-search of the last hybridSearch returned
FusedIds == IdSet(search.vector) \cup IdSet(search.bm25)

\* C35: an item of the list hybridSearch returns is tagged 'hybrid' only if
\* the chunk with its id was returned by both the vector and the BM25
\* sub-search; no chunk id is in the list twice, and the list has a place for
\* every distinct chunk id the sub-searches returned, up to topK of them.
C35_HybridPerChunk ==
    search.op = "hybrid" =>
        /\ \A k \in DOMAIN search.result :
              search.result[k].searchMethod = "hybrid" =>
                  search.result[k].id \in IdSet(search.vector) \cap IdSet(search.bm25)
        /\ NoIdTwice(search.result)
        /\ Len(search.result) = Min(search.topK, Cardinality(FusedIds))


\* ------------------------------------------------------------------------
\* Properties of the chunk cache against the chunks store
\* ------------------------------------------------------------------------
\* C36: whenever the chunk cache has an entry for a book, the entry holds
\* exactly the chunks the chunks store of the book holds, so that getChunks
\* returns the same set with the entry and, after recoverFromError, without it.
C36_ChunkCacheCoherent ==
    \A b \in Books :
        chunkCache[b].has =>
            {chunkCache[b].chunks[k] : k \in DOMAIN chunkCache[b].chunks} = db[b].chunks


\* ------------------------------------------------------------------------
\* Properties of the sources under spoiler protection
\* ------------------------------------------------------------------------
\* C37: when the settings a chat run took at its start have spoilerProtection
\* on, every chunk the run publishes to lastSources, page context and
\* hybrid-search result alike, has pageNumber <= currentPage of the same
\* options.
C37_SourcesWithinCurrentPage ==
    [][(chat.pc = "retrieval" /\ chat'.retrieved = "ok"
            /\ chat.options.settings.spoilerProtection) =>
          AllItems(lastSources', LAMBDA c : c.pageNumber <= chat.options.currentPage)]_vars

\* a run on page 0 with spoiler protection whose query also matches chunks of
\* page 1 published a hybrid-search result, while the panel has moved on to
\* page 1
C37_Witness ==
    /\ chat.retrieved = "ok"
    /\ lastWrite = "retrieval"
    /\ chat.options.settings.spoilerProtection
    /\ chat.options.currentPage = 0
    /\ optionsRef.currentPage = 1
    /\ \E c \in db[TheBook].chunks : c.pageNumber = 1 /\ c.text.terms \cap chat.query # {}
    /\ chat.searchChunks # <<>>
    /\ lastSources = chat.chunks
    /\ lastSources # <<>>


\* ------------------------------------------------------------------------
\* Properties of the database handles
\* ------------------------------------------------------------------------
\* C38: every handle openDB obtained and that is still open is the one the
\* handle map records for its book, so that a book has at most one open
\* handle and recoverFromError, which closes the recorded handles, leaves
\* none open; also when openDB is called for a book while another call for
\* the same book is waiting for its handle.
C38_HandlesTracked ==
    /\ \A b \in Books : Cardinality(OpenHandles(b)) <= 1
    /\ \A k \in OpenIds :
          idb.opens[k].state = "open" => idb.recorded[idb.opens[k].book] = k
    /\ storeOp.name = "recoverFromError" /\ dbs = {} =>
          \A b \in Books : OpenHandles(b) = {}


\* ------------------------------------------------------------------------
\* Properties of the sources when chat requests overlap
\* ------------------------------------------------------------------------
\* the runs of the adapter that have started, and the one that started last
StartedRequests == {i \in Requests : requests[i].seq > 0}
LatestRequest == CHOOSE i \in StartedRequests :
                     \A j \in StartedRequests : requests[j].seq <= requests[i].seq

ConversationState(b) == <<convStore[b], msgStore[b], conversationCache[b]>>
ConversationReads(conversations, messages, cache) ==
    <<GetConversationsOf(cache, conversations),
      [id \in ConversationIds |-> GetMessagesOf(messages, id)]>>

\* C40: a clearBookIndex that completes, and every step of an indexBook run,
\* leaves the persisted conversations, the persisted messages and the
\* conversation cache of every book as they were, and with them what
\* getConversations and getMessages return.
C40_ClearKeepsConversations ==
    [][(ClearCompletes \/ run' # run) =>
          \A b \in Books :
              /\ ConversationState(b)' = ConversationState(b)
              /\ ConversationReads(convStore'[b], msgStore'[b], conversationCache'[b])
                    = ConversationReads(convStore[b], msgStore[b], conversationCache[b])]_vars

\* an indexed book with two conversations, their list cached, and messages
\* was cleared
C40_Witness ==
    /\ clear.pc = "idle"
    /\ clear.last = "ok"
    /\ \E r \in Runs : run[r].writes = PersistSequence
    /\ db[TheBook] = [chunks |-> {}, meta |-> NoMeta, bm25 |-> NoIndex]
    /\ Cardinality(convStore[TheBook]) = 2
    /\ msgStore[TheBook] # {}
    /\ conversationCache[TheBook].has
    /\ Len(GetConversations(TheBook)) = 2

====
